---- MODULE Spec2Model ----
(***************************************************************************)
(* A model of the authorization core of llama-gin-kit:                     *)
(*   - the organization module (organizations, teams, JSON-permission      *)
(*     roles, members, invitations) of package organization, and           *)
(*   - the relational role/permission registry, the three binding tables   *)
(*     and the permission resolver of package authorization.               *)
(* Tables are sets of rows; a service method is one action; the value a    *)
(* method returns (and the rows it loaded) is left in the variable ret.    *)
(***************************************************************************)
EXTENDS Integers, Sequences, FiniteSets, TLC

VARIABLES
    organizations,   \* table organizations: the set of organization ids
    teams,           \* table teams: rows [id, organization_id]
    orgRoles,        \* table organization_roles (organization.Role)
    members,         \* table organization_members
    invitations,     \* table organization_invitations, indexed by id
    lastRoleID,      \* auto-increment counter of organization_roles
    lastMemberID,    \* auto-increment counter of organization_members
    now,             \* time.Now(), in days
    authRoles,       \* table roles (authorization.Role)
    authPermissions, \* table permissions (authorization.Permission)
    rolePermissions, \* table role_permissions
    userRoles,       \* table user_roles, in insertion order
    organizationRoles, \* the rows of authorization.OrganizationRole, in insertion order
    teamRoles,       \* table team_roles, in insertion order
    lastAuthRoleID,  \* auto-increment counter of roles
    lastPermissionID, \* auto-increment counter of permissions
    linkTx,          \* the transaction of repositoryImpl.AssignPermissionsToRole in flight
    calls,           \* per concurrent caller, the service call it is in the middle of
    ret              \* what the last service call returned

orgVars == <<organizations, teams, orgRoles, members, invitations,
             lastRoleID, lastMemberID, now>>

authVars == <<authRoles, authPermissions, rolePermissions, userRoles, organizationRoles,
              teamRoles, lastAuthRoleID, lastPermissionID, linkTx>>

vars == <<orgVars, authVars, calls, ret>>

-----------------------------------------------------------------------------
(* Bounds of the model *)

\* OrgSpec: organizations, roles and members
MaxOrgs == 2
MaxNewRoles == 1
MaxMemberID == 2
MaxOrgInvitations == 1

\* InvitationSpec: the life of an invitation
MaxInvitations == 2
MaxInvMemberID == 3
MaxTeams == 1
MaxNow == 16
ClockStep == 8

\* ResolverSpec
MaxResolverRoles == 2
MaxResolverPermissions == 2
MaxResolverBindings == 1

\* GlobalBindingSpec and ScopedBindingSpec
MaxBindingRoles == 2
MaxBindings == 2
MaxScopedBindings == 2

\* RegistrySpec
MaxRegistryRoleID == 5
MaxRegistryPermissions == 1
MaxRegistryBindings == 1

\* AcceptSpec: teams, member ids and invitations of the organization
MaxAcceptTeams == 1
MaxAcceptMemberID == 3
MaxAcceptInvitations == 1

\* TxSpec: roles, permissions and bindings around the transaction
MaxTxRoles == 1
MaxTxPermissions == 2
MaxTxBindings == 1

\* RoleUseSpec: roles and bindings per scope
MaxUseRoles == 2
MaxUseBindings == 1

\* ExpirySpec: roles, permissions and bindings that can expire
MaxExpiryRoles == 1
MaxExpiryPermissions == 1
MaxExpiryBindings == 2

\* MiddlewareSpec: role ids, permissions and bindings behind the route guards
MaxMiddlewareRoleID == 5
MaxMiddlewarePermissions == 1
MaxMiddlewareBindings == 2

\* ScopedRoleSpec: the roles of an organization and the members that hold them
MaxScopedOrgs == 1
MaxScopedRoles == 2
MaxScopedMemberID == 2

\* concurrent callers of one service
MaxCallers == 2

\* InvitationRaceSpec: the invitations and members of the concurrent acceptances
MaxRaceInvitations == 1
MaxRaceMemberID == 3

\* BindingRaceSpec: the roles and bindings of the concurrent assignments
MaxRaceRoles == 1
MaxRaceBindings == 2

\* SystemRoleSpec: role ids handed out while the system roles are installed
MaxInitRoleID == 5

\* TenantSpec: organizations, their roles, members and invitations
MaxTenantOrgs == 2
MaxTenantRoles == 2
MaxTenantMemberID == 3
MaxTenantInvitations == 1

\* GrantSpec: the bindings of each scope
MaxGrantBindings == 1

\* LinkSpec: roles and permissions that can be linked
MaxLinkRoles == 2
MaxLinkPermissions == 3

\* the requests that can be in progress at the same time
Callers == 1..MaxCallers

UserIDs == {1, 2}
\* the user a request is authenticated as when it invites
InviterIDs == {1}

\* a nil *uint (TeamID, OrganizationID) and a NULL column
Nil == 0

-----------------------------------------------------------------------------
(* Program constants *)

\* the number of roles migration 202506187_create_default_roles creates
SeedCount == 4

InviteTTLDays == 7

StatusPending == 0
StatusAccepted == 1
StatusExpired == 3

MemberActive == 1
MemberPending == 0
MemberDisabled == 2

\* The JSON texts stored in Role.Permissions
PermAll == "{\"*\": true}"
PermSeedAdmin == "{\"*\":\"*\"}"
PermSeedMember == "{\"organization.view\": true, \"team.view\": true, \"member.view\": true}"
PermSeedOwner == "{\"organization.*\": true, \"team.*\": true, \"member.*\": true, \"role.*\": true, \"invitation.*\": true}"
PermSeedManager == "{\"organization.view\": true, \"team.*\": true, \"member.*\": true, \"invitation.*\": true}"
PermTeams == "{\"teams.create\": true, \"team.view\": false}"

\* the permission names asked for
PermissionNames == {"teams.create", "team.view"}

\* errors.New(...) of the organization service
ErrNone == "nil"
ErrOrgNotFound == "organization not found"
ErrRoleNotFound == "role not found"
ErrTeamNotFound == "team not found"
ErrAlreadyMember == "user is already a member of this organization"
ErrMemberNotFound == "member not found"
ErrCannotChange == "cannot change organization or user ID of a member"
ErrInvitationNotFound == "invitation not found"
ErrExpired == "invitation has expired"
ErrAlreadyProcessed == "invitation has already been processed"
ErrOnlyPending == "only pending invitations can be cancelled"
\* the error of a store call that failed
ErrStore == "store error"
ErrDeleteDefaultRole == "cannot delete default role"
ErrRoleInUse == "role is in use and cannot be deleted"
ErrNotAMember == "user is not a member of this organization"
ErrMemberRoleNotFound == "member role not found"
ErrInvalidFormat == "invalid permission format"

-----------------------------------------------------------------------------
(* Helpers of the storage layer *)

Min(S) == CHOOSE x \in S : \A y \in S : x <= y

\* gorm First(): the row with the lowest primary key
FirstRow(rows) == CHOOSE r \in rows : \A q \in rows : r.id <= q.id

\* gorm Create() with a `default:1` tag: a zero value is left to the column default
GormDefaultStatus(status) == IF status = 0 THEN 1 ELSE status

\* json.Unmarshal([]byte(role.Permissions), &permissions) on the stored texts:
\* a JSON true/false becomes a Go bool, a JSON string a Go string
JSONUnmarshal(text) ==
    CASE text = PermAll ->
            [err |-> FALSE, keys |-> {"*"}, val |-> [k \in {"*"} |-> "bool:true"]]
      [] text = PermSeedAdmin ->
            [err |-> FALSE, keys |-> {"*"}, val |-> [k \in {"*"} |-> "string:*"]]
      [] text = PermSeedMember ->
            [err |-> FALSE, keys |-> {"organization.view", "team.view", "member.view"},
             val |-> [k \in {"organization.view", "team.view", "member.view"} |-> "bool:true"]]
      [] text = PermSeedOwner ->
            [err |-> FALSE,
             keys |-> {"organization.*", "team.*", "member.*", "role.*", "invitation.*"},
             val |-> [k \in {"organization.*", "team.*", "member.*", "role.*", "invitation.*"}
                        |-> "bool:true"]]
      [] text = PermSeedManager ->
            [err |-> FALSE,
             keys |-> {"organization.view", "team.*", "member.*", "invitation.*"},
             val |-> [k \in {"organization.view", "team.*", "member.*", "invitation.*"}
                        |-> "bool:true"]]
      [] text = PermTeams ->
            [err |-> FALSE, keys |-> {"teams.create", "team.view"},
             val |-> [k \in {"teams.create", "team.view"} |->
                        IF k = "teams.create" THEN "bool:true" ELSE "bool:false"]]
      [] OTHER ->
            [err |-> TRUE, keys |-> {}, val |-> <<>>]

\* if val, ok := permissions[key]; ok { if boolVal, ok := val.(bool); ok && boolVal {...} }
MapHasTrue(m, key) == key \in m.keys /\ m.val[key] = "bool:true"

-----------------------------------------------------------------------------
(* Repository reads of package organization *)

GetOrganization(id) == id \in organizations
GetTeam(id) == \E t \in teams : t.id = id
RoleRows(id) == {r \in orgRoles : r.id = id}
GetRole(id) == RoleRows(id) # {}
MemberRows(id) == {m \in members : m.id = id}
\* a lookup that matches no row
MembersByUserAndOrg_NoRow(userID, orgID) == {}

MembersByUserAndOrg(userID, orgID) ==
    {m \in members : m.user_id = userID /\ m.organization_id = orgID}
GetMemberByUserAndOrg(userID, orgID) ==
    IF MembersByUserAndOrg(userID, orgID) = {}
    THEN [found |-> FALSE]
    ELSE [found |-> TRUE, member |-> FirstRow(MembersByUserAndOrg(userID, orgID))]

\* OrganizationServiceImpl.CheckPermission
CheckPermission(userID, orgID, permission) ==
    LET got == GetMemberByUserAndOrg(userID, orgID) IN
    IF ~got.found THEN [err |-> ErrNotAMember, ok |-> FALSE]
    ELSE IF got.member.status # 1 THEN [err |-> ErrNone, ok |-> FALSE]
    ELSE IF ~GetRole(got.member.role_id) THEN [err |-> ErrMemberRoleNotFound, ok |-> FALSE]
    ELSE LET role == FirstRow(RoleRows(got.member.role_id))
             permissions == JSONUnmarshal(role.permissions)
         IN IF permissions.err THEN [err |-> ErrInvalidFormat, ok |-> FALSE]
            ELSE IF MapHasTrue(permissions, "*") THEN [err |-> ErrNone, ok |-> TRUE]
            ELSE IF MapHasTrue(permissions, permission) THEN [err |-> ErrNone, ok |-> TRUE]
            ELSE [err |-> ErrNone, ok |-> FALSE]

-----------------------------------------------------------------------------
(* The store after the migrations *)

\* migration 202506187_create_default_roles
SeededRoles ==
    { [id |-> 1, organization_id |-> Nil, permissions |-> PermSeedAdmin,
       name |-> "admin", is_default |-> FALSE],
      [id |-> 2, organization_id |-> Nil, permissions |-> PermSeedMember,
       name |-> "member", is_default |-> TRUE],
      [id |-> 3, organization_id |-> Nil, permissions |-> PermSeedOwner,
       name |-> "owner", is_default |-> FALSE],
      [id |-> 4, organization_id |-> Nil, permissions |-> PermSeedManager,
       name |-> "manager", is_default |-> FALSE] }

\* no authorization data yet
AuthEmpty ==
    /\ authRoles = {}
    /\ authPermissions = {}
    /\ rolePermissions = {}
    /\ userRoles = <<>>
    /\ organizationRoles = <<>>
    /\ teamRoles = <<>>
    /\ lastAuthRoleID = 0
    /\ lastPermissionID = 0
    /\ linkTx = <<>>
    /\ calls = [c \in Callers |-> <<>>]

OrgInit ==
    /\ AuthEmpty
    /\ organizations = {}
    /\ teams = {}
    /\ \/ orgRoles = SeededRoles /\ lastRoleID = 4
       \/ orgRoles = {} /\ lastRoleID = 0
    /\ members = {}
    /\ invitations = <<>>
    /\ lastMemberID = 0
    /\ now = 0
    /\ ret = [err |-> ErrNone, op |-> "init"]

-----------------------------------------------------------------------------
(* Organization service *)

\* OrganizationServiceImpl.CreateOrganization: one transaction
AdminRoleCandidates(orgID) ==
    {r \in orgRoles : r.name = "admin" /\ (r.organization_id = orgID \/ r.organization_id = Nil)}

CreateOrganization(userID) ==
    /\ LET orgID == Cardinality(organizations) + 1
           found == AdminRoleCandidates(orgID) # {}
       IN /\ LET adminRoleID == IF found THEN FirstRow(AdminRoleCandidates(orgID)).id
                                ELSE lastRoleID + 1
             IN /\ organizations' = organizations \cup {orgID}
                /\ orgRoles' = IF found THEN orgRoles
                               ELSE orgRoles \cup
                                    {[id |-> adminRoleID, organization_id |-> orgID,
                                      permissions |-> PermAll,
                                      name |-> "admin", is_default |-> FALSE]}
                /\ lastRoleID' = IF found THEN lastRoleID ELSE adminRoleID
                /\ members' = members \cup
                                {[id |-> lastMemberID + 1, status |-> 1,
                                  user_id |-> userID, organization_id |-> orgID,
                                  role_id |-> adminRoleID, team_id |-> Nil]}
                /\ lastMemberID' = lastMemberID + 1
                /\ ret' = [err |-> ErrNone, role |-> adminRoleID,
                           op |-> "CreateOrganization", user |-> userID, org |-> orgID]
    /\ UNCHANGED <<teams, invitations, now, authVars, calls>>

\* the writes CreateOrganization made before the failing call left in the store
CreateOrganizationStoreFails_NoTransaction(userID, failedCall) ==
    /\ LET orgID == Cardinality(organizations) + 1
           found == AdminRoleCandidates(orgID) # {}
           roleCreated == failedCall = "AddMember" /\ ~found
       IN /\ organizations' = IF failedCall = "CreateOrganization" THEN organizations
                               ELSE organizations \cup {orgID}
          /\ orgRoles' = IF roleCreated
                          THEN orgRoles \cup
                                 {[id |-> lastRoleID + 1, organization_id |-> orgID,
                                   permissions |-> PermAll,
                                   name |-> "admin", is_default |-> FALSE]}
                          ELSE orgRoles
          /\ lastRoleID' = IF roleCreated THEN lastRoleID + 1 ELSE lastRoleID
          /\ ret' = [err |-> ErrStore, role |-> Nil,
                     op |-> "CreateOrganization", user |-> userID, org |-> orgID]
    /\ UNCHANGED <<teams, members, invitations, lastMemberID, now, authVars, calls>>

\* OrganizationServiceImpl.CreateOrganization when the store fails the call failedCall
\* ("CreateOrganization", "First", "CreateRole" or "AddMember"): the function passed to
\* db.Transaction returns the error and the transaction is rolled back
CreateOrganizationStoreFails(userID, failedCall) ==
    /\ LET orgID == Cardinality(organizations) + 1
           found == AdminRoleCandidates(orgID) # {}
       IN /\ failedCall = "CreateRole" => ~found
          /\ ret' = [err |-> ErrStore, role |-> Nil,
                     op |-> "CreateOrganization", user |-> userID, org |-> orgID]
    /\ UNCHANGED <<organizations, teams, orgRoles, members, invitations,
                   lastRoleID, lastMemberID, now, authVars, calls>>

\* OrganizationServiceImpl.CreateTeam
CreateTeam(orgID) ==
    /\ IF ~GetOrganization(orgID)
       THEN /\ ret' = [err |-> ErrOrgNotFound, op |-> "CreateTeam"]
            /\ UNCHANGED teams
       ELSE /\ teams' = teams \cup {[id |-> Cardinality(teams) + 1, organization_id |-> orgID]}
            /\ ret' = [err |-> ErrNone, op |-> "CreateTeam"]
    /\ UNCHANGED <<organizations, orgRoles, members, invitations, lastRoleID, lastMemberID, now, authVars, calls>>

\* OrganizationServiceImpl.CreateRole (organization module)
CreateRole(name, orgID, permissions, isDefault) ==
    /\ IF orgID # Nil /\ orgID > 0 /\ ~GetOrganization(orgID)
       THEN /\ ret' = [err |-> ErrOrgNotFound, op |-> "CreateRole"]
            /\ UNCHANGED <<orgRoles, lastRoleID>>
       ELSE /\ orgRoles' = orgRoles \cup
                             {[id |-> lastRoleID + 1, organization_id |-> orgID,
                               permissions |-> permissions, name |-> name,
                               is_default |-> isDefault]}
            /\ lastRoleID' = lastRoleID + 1
            /\ ret' = [err |-> ErrNone, op |-> "CreateRole"]
    /\ UNCHANGED <<organizations, teams, members, invitations, lastMemberID, now, authVars, calls>>

\* a deletion that never finds the role in use
RoleInUse_Never(id) == FALSE

\* DeleteRole: count of organization_members rows with role_id = id is positive
RoleInUse(id) == \E m \in members : m.role_id = id

\* OrganizationServiceImpl.DeleteRole
DeleteRole(id) ==
    /\ LET err == IF ~GetRole(id) THEN ErrRoleNotFound
                  ELSE IF FirstRow(RoleRows(id)).is_default THEN ErrDeleteDefaultRole
                  ELSE IF RoleInUse(id) THEN ErrRoleInUse
                  ELSE ErrNone
       IN /\ ret' = [id |-> id, err |-> err, op |-> "DeleteRole"]
          /\ orgRoles' = IF err = ErrNone THEN orgRoles \ RoleRows(id) ELSE orgRoles
    /\ UNCHANGED <<organizations, teams, members, invitations, lastRoleID, lastMemberID, now, authVars, calls>>

\* OrganizationServiceImpl.AddMember
AddMember(userID, orgID, teamID, roleID, status) ==
    /\ LET existing == GetMemberByUserAndOrg(userID, orgID)
           err == IF ~GetOrganization(orgID) THEN ErrOrgNotFound
                  ELSE IF ~GetRole(roleID) THEN ErrRoleNotFound
                  ELSE IF existing.found THEN ErrAlreadyMember
                  ELSE ErrNone
       IN /\ ret' = [err |-> err, op |-> "AddMember"]
          /\ IF err = ErrNone
             THEN /\ members' = members \cup
                                  {[id |-> lastMemberID + 1, status |-> GormDefaultStatus(status),
                                    user_id |-> userID, organization_id |-> orgID,
                                    role_id |-> roleID, team_id |-> teamID]}
                  /\ lastMemberID' = lastMemberID + 1
             ELSE UNCHANGED <<members, lastMemberID>>
    /\ UNCHANGED <<organizations, teams, orgRoles, invitations, lastRoleID, now, authVars, calls>>

\* OrganizationServiceImpl.UpdateMember: member is the row the caller sends
UpdateMember(member) ==
    /\ LET err == IF MemberRows(member.id) = {} THEN ErrMemberNotFound
                  ELSE IF \/ member.organization_id # FirstRow(MemberRows(member.id)).organization_id
                          \/ member.user_id # FirstRow(MemberRows(member.id)).user_id
                       THEN ErrCannotChange
                  ELSE IF ~GetRole(member.role_id) THEN ErrRoleNotFound
                  ELSE ErrNone
       IN /\ ret' = [err |-> err, op |-> "UpdateMember"]
          /\ members' = IF err = ErrNone
                        THEN (members \ MemberRows(member.id)) \cup {member}
                        ELSE members
    /\ UNCHANGED <<organizations, teams, orgRoles, invitations, lastRoleID, lastMemberID, now, authVars, calls>>

\* OrganizationServiceImpl.RemoveMember
RemoveMember(id) ==
    /\ IF MemberRows(id) = {}
       THEN /\ ret' = [err |-> ErrMemberNotFound, op |-> "RemoveMember"]
            /\ UNCHANGED members
       ELSE /\ members' = members \ MemberRows(id)
            /\ ret' = [err |-> ErrNone, op |-> "RemoveMember"]
    /\ UNCHANGED <<organizations, teams, orgRoles, invitations, lastRoleID, lastMemberID, now, authVars, calls>>

-----------------------------------------------------------------------------
(* Invitations *)

\* GenerateToken(32): the token of the n-th invitation; tokens are unique
TokenOf(id) == id

GetInvitationByToken(token) == {i \in DOMAIN invitations : invitations[i].token = token}

\* OrganizationServiceImpl.InviteMember
InviteMember(orgID, teamID, roleID, invitedBy) ==
    /\ LET err == IF ~GetOrganization(orgID) THEN ErrOrgNotFound
                  ELSE IF ~GetRole(roleID) THEN ErrRoleNotFound
                  ELSE IF teamID # Nil /\ teamID > 0 /\ ~GetTeam(teamID) THEN ErrTeamNotFound
                  ELSE ErrNone
           id == Len(invitations) + 1
       IN /\ ret' = [err |-> err, op |-> "InviteMember"]
          /\ invitations' =
                IF err = ErrNone
                THEN Append(invitations,
                            [status |-> 0, organization_id |-> orgID,
                             role_id |-> roleID, team_id |-> teamID, token |-> TokenOf(id),
                             invited_by |-> invitedBy, expires_at |-> now + InviteTTLDays])
                ELSE invitations
    /\ UNCHANGED <<organizations, teams, orgRoles, members, lastRoleID, lastMemberID, now, authVars, calls>>

\* invitation.ExpiresAt.Before(time.Now())
IsExpired(invitation, t) == invitation.expires_at < t

\* a status test that lets every invitation through
IsProcessed_Never(invitation) == FALSE

\* invitation.Status != 0
IsProcessed(invitation) == invitation.status # 0

\* OrganizationServiceImpl.ProcessInvitation; loaded is the status the call read
ProcessInvitation(token, userID) ==
    LET found == GetInvitationByToken(token) IN
    IF found = {}
    THEN /\ ret' = [err |-> ErrInvitationNotFound, op |-> "ProcessInvitation",
                    user |-> userID, token |-> token, loaded |-> -1]
         /\ UNCHANGED <<organizations, teams, orgRoles, members, invitations,
                        lastRoleID, lastMemberID, now, authVars, calls>>
    ELSE LET id == Min(found)
             invitation == invitations[id]
         IN IF IsExpired(invitation, now)
            THEN /\ invitations' = [invitations EXCEPT ![id].status = 3]
                 /\ ret' = [err |-> ErrExpired, op |-> "ProcessInvitation",
                            user |-> userID, token |-> token, loaded |-> invitation.status]
                 /\ UNCHANGED <<organizations, teams, orgRoles, members,
                                lastRoleID, lastMemberID, now, authVars, calls>>
            ELSE IF IsProcessed(invitation)
            THEN /\ ret' = [err |-> ErrAlreadyProcessed, op |-> "ProcessInvitation",
                            user |-> userID, token |-> token, loaded |-> invitation.status]
                 /\ UNCHANGED <<organizations, teams, orgRoles, members, invitations,
                                lastRoleID, lastMemberID, now, authVars, calls>>
            ELSE /\ invitations' = [invitations EXCEPT ![id].status = 1]
                 /\ members' = members \cup
                                 {[id |-> lastMemberID + 1, status |-> 1,
                                   user_id |-> userID,
                                   organization_id |-> invitation.organization_id,
                                   role_id |-> invitation.role_id, team_id |-> invitation.team_id]}
                 /\ lastMemberID' = lastMemberID + 1
                 /\ ret' = [err |-> ErrNone, op |-> "ProcessInvitation",
                            user |-> userID, token |-> token, loaded |-> invitation.status]
                 /\ UNCHANGED <<organizations, teams, orgRoles, lastRoleID, now, authVars, calls>>

\* ProcessInvitation of caller c up to its read: GetInvitationByToken loads the row
ProcessInvitationLoad(c, token, userID) ==
    /\ calls[c] = <<>>
    /\ LET found == GetInvitationByToken(token) IN
       IF found = {}
       THEN /\ ret' = [err |-> ErrInvitationNotFound, op |-> "ProcessInvitation",
                       user |-> userID, token |-> token, loaded |-> -1]
            /\ UNCHANGED calls
       ELSE /\ calls' = [calls EXCEPT ![c] =
                            <<[id |-> Min(found), op |-> "ProcessInvitation",
                               user |-> userID, invitation |-> invitations[Min(found)],
                               pc |-> "UpdateInvitation"]>>]
            /\ UNCHANGED ret
    /\ UNCHANGED <<organizations, teams, orgRoles, members, invitations,
                   lastRoleID, lastMemberID, now, authVars>>

\* the checks on the loaded row and repo.UpdateInvitation, which saves the loaded row
ProcessInvitationUpdate(c) ==
    /\ calls[c] # <<>>
    /\ calls[c][1].op = "ProcessInvitation"
    /\ calls[c][1].pc = "UpdateInvitation"
    /\ LET call == calls[c][1]
           invitation == call.invitation
           result(err) == [err |-> err, op |-> "ProcessInvitation", user |-> call.user,
                           token |-> invitation.token, loaded |-> invitation.status]
       IN IF IsExpired(invitation, now)
          THEN /\ invitations' = [invitations EXCEPT ![call.id] = [invitation EXCEPT !.status = 3]]
               /\ ret' = result(ErrExpired)
               /\ calls' = [calls EXCEPT ![c] = <<>>]
          ELSE IF IsProcessed(invitation)
          THEN /\ ret' = result(ErrAlreadyProcessed)
               /\ calls' = [calls EXCEPT ![c] = <<>>]
               /\ UNCHANGED invitations
          ELSE /\ invitations' = [invitations EXCEPT ![call.id] = [invitation EXCEPT !.status = 1]]
               /\ calls' = [calls EXCEPT ![c] = <<[call EXCEPT !.pc = "AddMember"]>>]
               /\ UNCHANGED ret
    /\ UNCHANGED <<organizations, teams, orgRoles, members, lastRoleID, lastMemberID, now, authVars>>

\* repo.AddMember with the member built from the loaded row, and the return
ProcessInvitationAddMember(c) ==
    /\ calls[c] # <<>>
    /\ calls[c][1].op = "ProcessInvitation"
    /\ calls[c][1].pc = "AddMember"
    /\ LET call == calls[c][1]
           invitation == call.invitation
       IN /\ members' = members \cup
                          {[id |-> lastMemberID + 1, status |-> 1,
                            user_id |-> call.user,
                            organization_id |-> invitation.organization_id,
                            role_id |-> invitation.role_id, team_id |-> invitation.team_id]}
          /\ lastMemberID' = lastMemberID + 1
          /\ ret' = [err |-> ErrNone, op |-> "ProcessInvitation", user |-> call.user,
                     token |-> invitation.token, loaded |-> invitation.status]
          /\ calls' = [calls EXCEPT ![c] = <<>>]
    /\ UNCHANGED <<organizations, teams, orgRoles, invitations, lastRoleID, now, authVars>>

\* OrganizationServiceImpl.ProcessInvitation when the store fails the call failedCall
\* ("UpdateInvitation" or "AddMember"), if the handler gets that far
ProcessInvitationStoreFails(token, userID, failedCall) ==
    LET found == GetInvitationByToken(token) IN
    IF found = {}
    THEN /\ ret' = [err |-> ErrInvitationNotFound, op |-> "ProcessInvitation",
                    user |-> userID, token |-> token, loaded |-> -1]
         /\ UNCHANGED <<organizations, teams, orgRoles, members, invitations,
                        lastRoleID, lastMemberID, now, authVars, calls>>
    ELSE LET id == Min(found)
             invitation == invitations[id]
         IN IF IsExpired(invitation, now)
            THEN /\ invitations' = IF failedCall = "UpdateInvitation" THEN invitations
                                   ELSE [invitations EXCEPT ![id].status = 3]
                 /\ ret' = [err |-> ErrExpired, op |-> "ProcessInvitation",
                            user |-> userID, token |-> token, loaded |-> invitation.status]
                 /\ UNCHANGED <<organizations, teams, orgRoles, members,
                                lastRoleID, lastMemberID, now, authVars, calls>>
            ELSE IF IsProcessed(invitation)
            THEN /\ ret' = [err |-> ErrAlreadyProcessed, op |-> "ProcessInvitation",
                            user |-> userID, token |-> token, loaded |-> invitation.status]
                 /\ UNCHANGED <<organizations, teams, orgRoles, members, invitations,
                                lastRoleID, lastMemberID, now, authVars, calls>>
            ELSE /\ invitations' = IF failedCall = "UpdateInvitation" THEN invitations
                                   ELSE [invitations EXCEPT ![id].status = 1]
                 /\ ret' = [err |-> ErrStore, op |-> "ProcessInvitation",
                            user |-> userID, token |-> token, loaded |-> invitation.status]
                 /\ UNCHANGED <<organizations, teams, orgRoles, members,
                                lastRoleID, lastMemberID, now, authVars, calls>>

\* a cancellation that does not look at the status
CancelInvitation_AnyStatus(id) ==
    /\ IF id \notin DOMAIN invitations
       THEN /\ ret' = [err |-> ErrInvitationNotFound, op |-> "CancelInvitation"]
            /\ UNCHANGED invitations
       ELSE /\ invitations' = [invitations EXCEPT ![id].status = 2]
            /\ ret' = [err |-> ErrNone, op |-> "CancelInvitation"]
    /\ UNCHANGED <<organizations, teams, orgRoles, members, lastRoleID, lastMemberID, now, authVars, calls>>

\* OrganizationServiceImpl.CancelInvitation
CancelInvitation(id) ==
    /\ IF id \notin DOMAIN invitations
       THEN /\ ret' = [err |-> ErrInvitationNotFound, op |-> "CancelInvitation"]
            /\ UNCHANGED invitations
       ELSE IF invitations[id].status # 0
       THEN /\ ret' = [err |-> ErrOnlyPending, op |-> "CancelInvitation"]
            /\ UNCHANGED invitations
       ELSE /\ invitations' = [invitations EXCEPT ![id].status = 2]
            /\ ret' = [err |-> ErrNone, op |-> "CancelInvitation"]
    /\ UNCHANGED <<organizations, teams, orgRoles, members, lastRoleID, lastMemberID, now, authVars, calls>>

\* OrganizationServiceImpl.CheckPermission, called
CallCheckPermission(userID, orgID, permission) ==
    /\ ret' = [err |-> CheckPermission(userID, orgID, permission).err,
               permission |-> permission,
               ok |-> CheckPermission(userID, orgID, permission).ok,
               op |-> "CheckPermission",
               user |-> userID,
               org |-> orgID]
    /\ UNCHANGED <<organizations, teams, orgRoles, members, invitations,
                   lastRoleID, lastMemberID, now, authVars, calls>>

\* the clock moves on
Tick ==
    /\ now' = now + ClockStep
    /\ UNCHANGED <<organizations, teams, orgRoles, members, invitations,
                   lastRoleID, lastMemberID, ret, authVars, calls>>

-----------------------------------------------------------------------------
(* OrgSpec: organizations, roles, members and the invitations that add members *)

OrgBounded ==
    /\ Cardinality(organizations') <= MaxOrgs
    /\ lastRoleID' <= SeedCount + MaxNewRoles
    /\ Cardinality(orgRoles' \ SeededRoles) <= MaxNewRoles
    /\ lastMemberID' <= MaxMemberID
    /\ Len(invitations') <= MaxOrgInvitations

OrgNext ==
    \/ \E u \in UserIDs : CreateOrganization(u) /\ OrgBounded
    \/ \E n \in {"admin", "editor"}, o \in {Nil, 1}, p \in {PermAll, PermTeams} :
            CreateRole(n, o, p, FALSE) /\ OrgBounded
    \/ \E u \in UserIDs, o \in 1..MaxOrgs, r \in {1, 2}, s \in {MemberPending, MemberActive} :
            AddMember(u, o, Nil, r, s) /\ OrgBounded
    \/ \E i \in 1..MaxMemberID, u \in UserIDs, o \in 1..MaxOrgs, r \in {1, 2},
         s \in {MemberActive, MemberDisabled} :
            UpdateMember([id |-> i, status |-> s, user_id |-> u, organization_id |-> o,
                          role_id |-> r, team_id |-> Nil])
    \/ \E i \in 1..MaxMemberID : RemoveMember(i)
    \/ \E o \in 1..MaxOrgs, r \in {1, 2}, u \in InviterIDs :
            InviteMember(o, Nil, r, u) /\ OrgBounded
    \/ \E k \in 1..MaxOrgInvitations, u \in UserIDs :
            ProcessInvitation(TokenOf(k), u) /\ OrgBounded
    \/ \E u \in UserIDs, o \in 1..MaxOrgs, p \in PermissionNames : CallCheckPermission(u, o, p)

OrgSpec == OrgInit /\ [][OrgNext]_vars

-----------------------------------------------------------------------------
(* InvitationSpec: one organization, its invitations and the clock *)

InvBounded ==
    /\ Cardinality(organizations') <= 1
    /\ Cardinality(teams') <= MaxTeams
    /\ lastMemberID' <= MaxInvMemberID
    /\ Len(invitations') <= MaxInvitations
    /\ now' <= MaxNow

InvitationNext ==
    \/ \E u \in InviterIDs : CreateOrganization(u) /\ InvBounded
    \/ \E o \in {1} : CreateTeam(o) /\ InvBounded
    \/ \E o \in {1}, t \in {Nil} \cup (1..MaxTeams), r \in {1, 2}, u \in InviterIDs :
            InviteMember(o, t, r, u) /\ InvBounded
    \/ \E k \in 1..MaxInvitations, u \in UserIDs :
            ProcessInvitation(TokenOf(k), u) /\ InvBounded
    \/ \E i \in 1..MaxInvitations : CancelInvitation(i)
    \/ Tick /\ InvBounded

InvitationSpec == OrgInit /\ [][InvitationNext]_vars

-----------------------------------------------------------------------------
(* AcceptSpec: one organization and the invitations that are accepted, cancelled or
   left to expire *)

AcceptBounded ==
    /\ Cardinality(organizations') <= 1
    /\ Cardinality(teams') <= MaxAcceptTeams
    /\ lastMemberID' <= MaxAcceptMemberID
    /\ Len(invitations') <= MaxAcceptInvitations
    /\ now' <= MaxNow

AcceptNext ==
    \/ \E u \in InviterIDs : CreateOrganization(u) /\ AcceptBounded
    \/ \E o \in {1} : CreateTeam(o) /\ AcceptBounded
    \/ \E o \in {1}, t \in {Nil} \cup (1..MaxAcceptTeams), r \in {1, 2}, u \in InviterIDs :
            InviteMember(o, t, r, u) /\ AcceptBounded
    \/ \E k \in 1..MaxAcceptInvitations, u \in UserIDs :
            ProcessInvitation(TokenOf(k), u) /\ AcceptBounded
    \/ \E i \in 1..MaxAcceptInvitations : CancelInvitation(i)
    \/ Tick /\ AcceptBounded

AcceptSpec == OrgInit /\ [][AcceptNext]_vars

-----------------------------------------------------------------------------
(* FaultSpec: AcceptSpec with a store that can fail a call of CreateOrganization or
   of ProcessInvitation *)

CreateOrganizationCalls == {"CreateOrganization", "First", "CreateRole", "AddMember"}
ProcessInvitationCalls == {"UpdateInvitation", "AddMember"}

FaultNext ==
    \/ \E u \in InviterIDs : CreateOrganization(u) /\ AcceptBounded
    \/ \E u \in InviterIDs, c \in CreateOrganizationCalls : CreateOrganizationStoreFails(u, c)
    \/ \E o \in {1} : CreateTeam(o) /\ AcceptBounded
    \/ \E o \in {1}, t \in {Nil} \cup (1..MaxAcceptTeams), r \in {1, 2}, u \in InviterIDs :
            InviteMember(o, t, r, u) /\ AcceptBounded
    \/ \E k \in 1..MaxAcceptInvitations, u \in UserIDs :
            ProcessInvitation(TokenOf(k), u) /\ AcceptBounded
    \/ \E k \in 1..MaxAcceptInvitations, u \in UserIDs, c \in ProcessInvitationCalls :
            ProcessInvitationStoreFails(TokenOf(k), u, c)
    \/ \E i \in 1..MaxAcceptInvitations : CancelInvitation(i)
    \/ Tick /\ AcceptBounded

FaultSpec == OrgInit /\ [][FaultNext]_vars

-----------------------------------------------------------------------------
(* The authorization module: roles, permissions, the links between them and the
   bindings of roles to users at global, organization and team scope *)

\* a nil pointer is <<>>, a pointer to v is <<v>>
Ptr(S) == {<<>>} \cup {<<v>> : v \in S}

RoleActive == 1
RoleDisabled == 0

ErrGetRole == "failed to get role"
ErrRoleNameExists == "role name already exists"
ErrUpdateSystemRole == "cannot update system role"
ErrDeleteSystemRole == "cannot delete system role"
ErrRoleAssigned == "cannot delete role that is assigned to users"
ErrGetPermission == "failed to get permission"
ErrPermissionNameExists == "permission name already exists"
ErrUpdateSystemPermission == "cannot update system permission"
ErrDeleteSystemPermission == "cannot delete system permission"
ErrSomeNotFound == "some permissions not found"
ErrAlreadyHasRole == "user already has this role"

SourceGlobal == "global"
SourceOrganization == "organization"
SourceTeam == "team"
SourceNone == ""

\* the elements of a sequence
Range(seq) == {seq[i] : i \in DOMAIN seq}

AuthRoleRows(id) == {r \in authRoles : r.id = id}
GetRoleByID(id) == AuthRoleRows(id) # {}
RolesByName(name) == {r \in authRoles : r.name = name}
GetRoleByName(name) == RolesByName(name) # {}
PermissionRows(id) == {p \in authPermissions : p.id = id}
GetPermissionByID(id) == PermissionRows(id) # {}
GetPermissionByName(name) == \E p \in authPermissions : p.name = name
GetPermissionsByIDs(ids) == {p \in authPermissions : p.id \in Range(ids)}

GetUsersWithRole(roleID) == {i \in DOMAIN userRoles : userRoles[i].role_id = roleID}

\* a lookup that never finds the binding
CheckUserRole_NeverFound(userID, roleID) == FALSE

CheckUserRole(userID, roleID) ==
    \E i \in DOMAIN userRoles : /\ userRoles[i].user_id = userID
                                /\ userRoles[i].role_id = roleID
                                /\ userRoles[i].is_active

\* Preload("Role"): the name of the bound role, the zero value if the row is gone
RoleNameOf(roleID) == IF GetRoleByID(roleID) THEN FirstRow(AuthRoleRows(roleID)).name ELSE ""

GetUserRoles(userID) ==
    SelectSeq(userRoles, LAMBDA b : b.user_id = userID /\ b.is_active)

GetUserOrganizationRoles(userID, organizationID) ==
    SelectSeq(organizationRoles,
              LAMBDA b : b.user_id = userID /\ b.organization_id = organizationID /\ b.is_active)

GetUserTeamRoles(userID, teamID) ==
    SelectSeq(teamRoles, LAMBDA b : b.user_id = userID /\ b.team_id = teamID /\ b.is_active)

\* a query that reads the rows the transaction in flight has not committed
VisibleRolePermissions_Uncommitted == IF linkTx = <<>> THEN rolePermissions ELSE linkTx[1].links

\* the rows of role_permissions a query on r.db, outside the transaction, reads
VisibleRolePermissions == rolePermissions

\* the permissions linked to a role
GetRolePermissions(roleID) ==
    {p.id : p \in {q \in authPermissions :
                     \E rp \in VisibleRolePermissions :
                         rp.permission_id = q.id /\ rp.role_id = roleID}}

\* a join that does not look at the role's status
JoinedPermissions_AnyRoleStatus(bindings) ==
    {p \in authPermissions :
        /\ p.status = 1
        /\ \E rp \in VisibleRolePermissions, r \in authRoles, b \in Range(bindings) :
              /\ p.id = rp.permission_id
              /\ rp.role_id = r.id
              /\ r.id = b.role_id
              /\ b.is_active}

\* permissions p JOIN role_permissions rp JOIN roles r JOIN <bindings>
\* WHERE <binding is active> AND r.status = 1 AND p.status = 1
JoinedPermissions(bindings) ==
    {p \in authPermissions :
        /\ p.status = 1
        /\ \E rp \in VisibleRolePermissions, r \in authRoles, b \in Range(bindings) :
              /\ p.id = rp.permission_id
              /\ rp.role_id = r.id
              /\ r.id = b.role_id
              /\ b.is_active
              /\ r.status = 1}

CheckUserPermission(userID, permission) ==
    {p \in JoinedPermissions(SelectSeq(userRoles, LAMBDA b : b.user_id = userID)) :
        p.name = permission} # {}

\* repositoryImpl.GetUserAllPermissions: SELECT DISTINCT p.name over the same join
GetUserAllPermissions(userID) ==
    {p.name : p \in JoinedPermissions(SelectSeq(userRoles, LAMBDA b : b.user_id = userID))}

CheckUserOrganizationPermission(userID, organizationID, permission) ==
    {p \in JoinedPermissions(SelectSeq(organizationRoles,
            LAMBDA b : b.user_id = userID /\ b.organization_id = organizationID)) :
        p.name = permission} # {}

GetUserTeamPermissions(userID, teamID) ==
    {p.name : p \in JoinedPermissions(SelectSeq(teamRoles,
                       LAMBDA b : b.user_id = userID /\ b.team_id = teamID))}

CheckUserTeamPermission(userID, teamID, permission) ==
    \E p \in GetUserTeamPermissions(userID, teamID) : p = permission

\* the resolver consulting the user's organization bindings whatever the request says
CheckPermissionResponse_AnyOrganization(req) ==
    LET globalHasPermission == CheckUserPermission(req.user_id, req.permission)
        orgHasPermission ==
            /\ ~globalHasPermission
            /\ \E b \in Range(organizationRoles) :
                  CheckUserOrganizationPermission(req.user_id, b.organization_id,
                                                  req.permission)
    IN [user_id |-> req.user_id,
        permission |-> req.permission,
        has_permission |-> globalHasPermission \/ orgHasPermission,
        roles |-> <<>>,
        source |-> IF globalHasPermission THEN SourceGlobal
                   ELSE IF orgHasPermission THEN SourceOrganization
                   ELSE SourceNone]

\* the resolver asking the team before the organization
CheckPermissionResponse_TeamFirst(req) ==
    LET globalHasPermission == CheckUserPermission(req.user_id, req.permission)
        teamHasPermission ==
            /\ ~globalHasPermission
            /\ req.team_id # Nil
            /\ CheckUserTeamPermission(req.user_id, req.team_id, req.permission)
        orgHasPermission ==
            /\ ~globalHasPermission
            /\ ~teamHasPermission
            /\ req.organization_id # Nil
            /\ CheckUserOrganizationPermission(req.user_id, req.organization_id, req.permission)
    IN [user_id |-> req.user_id,
        permission |-> req.permission,
        has_permission |-> globalHasPermission \/ orgHasPermission \/ teamHasPermission,
        roles |-> <<>>,
        source |-> IF globalHasPermission THEN SourceGlobal
                   ELSE IF teamHasPermission THEN SourceTeam
                   ELSE IF orgHasPermission THEN SourceOrganization
                   ELSE SourceNone]

\* serviceImpl.CheckPermission: global first, then the organization if an organization
\* id is supplied, then the team if a team id is supplied
CheckPermissionResponse(req) ==
    LET globalHasPermission == CheckUserPermission(req.user_id, req.permission)
        orgHasPermission ==
            /\ ~globalHasPermission
            /\ req.organization_id # Nil
            /\ CheckUserOrganizationPermission(req.user_id, req.organization_id, req.permission)
        teamHasPermission ==
            /\ ~globalHasPermission
            /\ ~orgHasPermission
            /\ req.team_id # Nil
            /\ CheckUserTeamPermission(req.user_id, req.team_id, req.permission)
        bound == IF globalHasPermission THEN GetUserRoles(req.user_id)
                 ELSE IF orgHasPermission
                      THEN GetUserOrganizationRoles(req.user_id, req.organization_id)
                 ELSE IF teamHasPermission THEN GetUserTeamRoles(req.user_id, req.team_id)
                 ELSE <<>>
    IN [user_id |-> req.user_id,
        permission |-> req.permission,
        has_permission |-> globalHasPermission \/ orgHasPermission \/ teamHasPermission,
        roles |-> [i \in DOMAIN bound |-> RoleNameOf(bound[i].role_id)],
        source |-> IF globalHasPermission THEN SourceGlobal
                   ELSE IF orgHasPermission THEN SourceOrganization
                   ELSE IF teamHasPermission THEN SourceTeam
                   ELSE SourceNone]

AuthCheckPermission(req) ==
    /\ ret' = [err |-> ErrNone, op |-> "CheckPermission", req |-> req,
               resp |-> CheckPermissionResponse(req)]
    /\ UNCHANGED <<orgVars, calls, linkTx, authVars>>

AuthCreateRole(req) ==
    /\ IF GetRoleByName(req.name)
       THEN /\ ret' = [err |-> ErrRoleNameExists, op |-> "CreateRole"]
            /\ UNCHANGED <<authRoles, lastAuthRoleID>>
       ELSE /\ lastAuthRoleID' = lastAuthRoleID + 1
            /\ authRoles' = authRoles \cup
                 {[id |-> lastAuthRoleID + 1, status |-> req.status,
                   name |-> req.name, display_name |-> req.display_name,
                   level |-> req.level, is_system |-> FALSE]}
            /\ ret' = [err |-> ErrNone, op |-> "CreateRole"]
    /\ UNCHANGED <<orgVars, calls, linkTx, authPermissions, rolePermissions, userRoles, organizationRoles,
                   teamRoles, lastPermissionID>>

\* the error UpdateRole returns before it writes, ErrNone if it goes on to write
UpdateRoleErr(id) ==
    IF ~GetRoleByID(id) THEN ErrGetRole
    ELSE IF FirstRow(AuthRoleRows(id)).is_system THEN ErrUpdateSystemRole
    ELSE ErrNone

AuthUpdateRole(id, req) ==
    /\ ret' = [id |-> id, err |-> UpdateRoleErr(id), op |-> "UpdateRole"]
    /\ IF UpdateRoleErr(id) # ErrNone
       THEN UNCHANGED authRoles
       ELSE LET role == FirstRow(AuthRoleRows(id))
                updated == [role EXCEPT
                    !.display_name = IF req.display_name # <<>> THEN req.display_name[1] ELSE @,
                    !.level = IF req.level # <<>> THEN req.level[1] ELSE @,
                    !.status = IF req.status # <<>> THEN req.status[1] ELSE @]
            IN authRoles' = (authRoles \ AuthRoleRows(id)) \cup {updated}
    /\ UNCHANGED <<orgVars, calls, linkTx, authPermissions, rolePermissions, userRoles, organizationRoles,
                   teamRoles, lastAuthRoleID, lastPermissionID>>

\* a deletion that does not look at IsSystem
DeleteRoleErr_NoSystemCheck(id) ==
    IF ~GetRoleByID(id) THEN ErrGetRole
    ELSE IF GetUsersWithRole(id) # {} THEN ErrRoleAssigned
    ELSE ErrNone

\* the error DeleteRole returns before it deletes, ErrNone if it goes on to delete
DeleteRoleErr(id) ==
    IF ~GetRoleByID(id) THEN ErrGetRole
    ELSE IF FirstRow(AuthRoleRows(id)).is_system THEN ErrDeleteSystemRole
    ELSE IF GetUsersWithRole(id) # {} THEN ErrRoleAssigned
    ELSE ErrNone

AuthDeleteRole(id) ==
    /\ ret' = [id |-> id, err |-> DeleteRoleErr(id), op |-> "DeleteRole"]
    /\ IF DeleteRoleErr(id) # ErrNone
       THEN UNCHANGED authRoles
       ELSE authRoles' = authRoles \ AuthRoleRows(id)
    /\ UNCHANGED <<orgVars, calls, linkTx, authPermissions, rolePermissions, userRoles, organizationRoles,
                   teamRoles, lastAuthRoleID, lastPermissionID>>

SystemRoles ==
    << [name |-> "super_admin", display_name |-> "Super Administrator", level |-> 1000],
       [name |-> "admin", display_name |-> "Administrator", level |-> 900],
       [name |-> "moderator", display_name |-> "Moderator", level |-> 500],
       [name |-> "user", display_name |-> "Regular User", level |-> 100] >>

\* the roles table and its counter after the first k entries of systemRoles were handled
RECURSIVE InitRolesUpTo(_)
InitRolesUpTo(k) ==
    IF k = 0 THEN [rows |-> authRoles, last |-> lastAuthRoleID]
    ELSE LET prev == InitRolesUpTo(k - 1)
             role == SystemRoles[k]
         IN IF \E r \in prev.rows : r.name = role.name
            THEN prev
            ELSE [rows |-> prev.rows \cup
                      {[id |-> prev.last + 1, status |-> RoleActive,
                        name |-> role.name, display_name |-> role.display_name,
                        level |-> role.level, is_system |-> TRUE]},
                  last |-> prev.last + 1]

InitializeSystemRoles ==
    /\ authRoles' = InitRolesUpTo(Len(SystemRoles)).rows
    /\ lastAuthRoleID' = InitRolesUpTo(Len(SystemRoles)).last
    /\ ret' = [err |-> ErrNone, op |-> "InitializeSystemRoles"]
    /\ UNCHANGED <<orgVars, calls, linkTx, authPermissions, rolePermissions, userRoles, organizationRoles,
                   teamRoles, lastPermissionID>>

CreatePermission(req) ==
    /\ IF GetPermissionByName(req.name)
       THEN /\ ret' = [err |-> ErrPermissionNameExists, op |-> "CreatePermission"]
            /\ UNCHANGED <<authPermissions, lastPermissionID>>
       ELSE /\ lastPermissionID' = lastPermissionID + 1
            /\ authPermissions' = authPermissions \cup
                 {[id |-> lastPermissionID + 1, status |-> req.status, name |-> req.name,
                   is_system |-> FALSE]}
            /\ ret' = [err |-> ErrNone, op |-> "CreatePermission"]
    /\ UNCHANGED <<orgVars, calls, linkTx, authRoles, rolePermissions, userRoles, organizationRoles,
                   teamRoles, lastAuthRoleID>>

UpdatePermission(id, req) ==
    /\ IF ~GetPermissionByID(id)
       THEN /\ ret' = [err |-> ErrGetPermission, op |-> "UpdatePermission"]
            /\ UNCHANGED authPermissions
       ELSE LET permission == FirstRow(PermissionRows(id))
            IN IF permission.is_system
               THEN /\ ret' = [err |-> ErrUpdateSystemPermission, op |-> "UpdatePermission"]
                    /\ UNCHANGED authPermissions
               ELSE /\ authPermissions' = (authPermissions \ PermissionRows(id)) \cup
                          {[permission EXCEPT
                              !.status = IF req.status # <<>> THEN req.status[1] ELSE @]}
                    /\ ret' = [err |-> ErrNone, op |-> "UpdatePermission"]
    /\ UNCHANGED <<orgVars, calls, linkTx, authRoles, rolePermissions, userRoles, organizationRoles,
                   teamRoles, lastAuthRoleID, lastPermissionID>>

DeletePermission(id) ==
    /\ IF ~GetPermissionByID(id)
       THEN /\ ret' = [err |-> ErrGetPermission, op |-> "DeletePermission"]
            /\ UNCHANGED authPermissions
       ELSE IF FirstRow(PermissionRows(id)).is_system
       THEN /\ ret' = [err |-> ErrDeleteSystemPermission, op |-> "DeletePermission"]
            /\ UNCHANGED authPermissions
       ELSE /\ authPermissions' = authPermissions \ PermissionRows(id)
            /\ ret' = [err |-> ErrNone, op |-> "DeletePermission"]
    /\ UNCHANGED <<orgVars, calls, linkTx, authRoles, rolePermissions, userRoles, organizationRoles,
                   teamRoles, lastAuthRoleID, lastPermissionID>>

\* the new links added to the role's links instead of replacing them
AssignPermissionsToRole_Merge(roleID, permissionIDs) ==
    /\ IF ~GetRoleByID(roleID)
       THEN /\ ret' = [err |-> ErrGetRole, op |-> "AssignPermissionsToRole"]
            /\ UNCHANGED rolePermissions
       ELSE IF Cardinality(GetPermissionsByIDs(permissionIDs)) # Len(permissionIDs)
       THEN /\ ret' = [err |-> ErrSomeNotFound, op |-> "AssignPermissionsToRole"]
            /\ UNCHANGED rolePermissions
       ELSE /\ rolePermissions' =
                 rolePermissions \cup
                 {[role_id |-> roleID, permission_id |-> permissionIDs[i]] :
                     i \in DOMAIN permissionIDs}
            /\ ret' = [err |-> ErrNone, op |-> "AssignPermissionsToRole"]
    /\ UNCHANGED <<orgVars, calls, linkTx, authRoles, authPermissions, userRoles, organizationRoles,
                   teamRoles, lastAuthRoleID, lastPermissionID>>

\* permissionIDs is the request's list; the role's links are replaced by it
AssignPermissionsToRole(roleID, permissionIDs) ==
    /\ IF ~GetRoleByID(roleID)
       THEN /\ ret' = [err |-> ErrGetRole, op |-> "AssignPermissionsToRole"]
            /\ UNCHANGED rolePermissions
       ELSE IF Cardinality(GetPermissionsByIDs(permissionIDs)) # Len(permissionIDs)
       THEN /\ ret' = [err |-> ErrSomeNotFound, op |-> "AssignPermissionsToRole"]
            /\ UNCHANGED rolePermissions
       ELSE /\ rolePermissions' =
                 {rp \in rolePermissions : rp.role_id # roleID} \cup
                 {[role_id |-> roleID, permission_id |-> permissionIDs[i]] :
                     i \in DOMAIN permissionIDs}
            /\ ret' = [err |-> ErrNone, op |-> "AssignPermissionsToRole"]
    /\ UNCHANGED <<orgVars, calls, linkTx, authRoles, authPermissions, userRoles, organizationRoles,
                   teamRoles, lastAuthRoleID, lastPermissionID>>

\* serviceImpl.AssignPermissionsToRole up to the start of the repository's transaction:
\* links is the table as the transaction sees it, old the table it started from
AssignPermissionsToRoleBegin(roleID, permissionIDs) ==
    /\ linkTx = <<>>
    /\ IF ~GetRoleByID(roleID)
       THEN /\ ret' = [err |-> ErrGetRole, op |-> "AssignPermissionsToRole"]
            /\ UNCHANGED linkTx
       ELSE IF Cardinality(GetPermissionsByIDs(permissionIDs)) # Len(permissionIDs)
       THEN /\ ret' = [err |-> ErrSomeNotFound, op |-> "AssignPermissionsToRole"]
            /\ UNCHANGED linkTx
       ELSE /\ linkTx' = <<[role_id |-> roleID, pc |-> "delete",
                            links |-> rolePermissions, permission_ids |-> permissionIDs,
                            old |-> rolePermissions]>>
            /\ ret' = [err |-> ErrNone, op |-> "AssignPermissionsToRole: begin"]
    /\ UNCHANGED <<orgVars, calls, authRoles, authPermissions, rolePermissions, userRoles,
                   organizationRoles, teamRoles, lastAuthRoleID, lastPermissionID>>

\* tx.Where("role_id = ?", roleID).Delete(&RolePermission{}); an empty list returns nil
TxDeleteLinks ==
    /\ linkTx # <<>>
    /\ linkTx[1].pc = "delete"
    /\ linkTx' = <<[linkTx[1] EXCEPT
                      !.links = {rp \in @ : rp.role_id # linkTx[1].role_id},
                      !.pc = IF Len(linkTx[1].permission_ids) = 0 THEN "commit"
                             ELSE "create"]>>
    /\ UNCHANGED <<orgVars, calls, authRoles, authPermissions, rolePermissions, userRoles,
                   organizationRoles, teamRoles, lastAuthRoleID, lastPermissionID, ret>>

\* tx.Create(&rolePermissions)
TxCreateLinks ==
    /\ linkTx # <<>>
    /\ linkTx[1].pc = "create"
    /\ linkTx' = <<[linkTx[1] EXCEPT
                      !.links = @ \cup {[role_id |-> linkTx[1].role_id,
                                          permission_id |-> linkTx[1].permission_ids[i]] :
                                            i \in DOMAIN linkTx[1].permission_ids},
                      !.pc = "commit"]>>
    /\ UNCHANGED <<orgVars, calls, authRoles, authPermissions, rolePermissions, userRoles,
                   organizationRoles, teamRoles, lastAuthRoleID, lastPermissionID, ret>>

\* the function passed to db.Transaction returns nil: the transaction commits
TxCommit ==
    /\ linkTx # <<>>
    /\ linkTx[1].pc = "commit"
    /\ rolePermissions' = linkTx[1].links
    /\ linkTx' = <<>>
    /\ ret' = [err |-> ErrNone, op |-> "AssignPermissionsToRole"]
    /\ UNCHANGED <<orgVars, calls, authRoles, authPermissions, userRoles, organizationRoles,
                   teamRoles, lastAuthRoleID, lastPermissionID>>

\* repositoryImpl.GetUserRoles, called: rows are the bindings it returns
CallGetUserRoles(userID) ==
    /\ ret' = [rows |-> GetUserRoles(userID), err |-> ErrNone, user_id |-> userID,
               op |-> "GetUserRoles"]
    /\ UNCHANGED <<orgVars, calls, authVars>>

\* repositoryImpl.CheckUserRole, called
CallCheckUserRole(userID, roleID) ==
    /\ ret' = [err |-> ErrNone, user_id |-> userID, found |-> CheckUserRole(userID, roleID),
               role_id |-> roleID, op |-> "CheckUserRole"]
    /\ UNCHANGED <<orgVars, calls, authVars>>

\* where the transaction in flight stands when a reader runs, "" if there is none
TxStage == IF linkTx = <<>> THEN "" ELSE linkTx[1].pc

\* repositoryImpl.GetRolePermissions, called by a reader; pc is the stage it ran at
CallGetRolePermissions(roleID) ==
    /\ ret' = [err |-> ErrNone, role_id |-> roleID, op |-> "GetRolePermissions",
               pc |-> TxStage, permission_ids |-> GetRolePermissions(roleID)]
    /\ UNCHANGED <<orgVars, calls, authVars>>

\* repositoryImpl.CheckUserPermission, called by a reader
CallCheckUserPermission(userID, permission) ==
    /\ ret' = [err |-> ErrNone, user_id |-> userID, permission |-> permission,
               op |-> "CheckUserPermission",
               pc |-> TxStage,
               has_permission |-> CheckUserPermission(userID, permission)]
    /\ UNCHANGED <<orgVars, calls, authVars>>

\* serviceImpl.GetUserPermissionsSummary: the global roles and all permissions
GetUserPermissionsSummary(userID) ==
    /\ ret' = [err |-> ErrNone, user_id |-> userID, op |-> "GetUserPermissionsSummary",
               global_roles |-> [i \in DOMAIN GetUserRoles(userID) |->
                                    RoleNameOf(GetUserRoles(userID)[i].role_id)],
               all_permissions |-> GetUserAllPermissions(userID)]
    /\ UNCHANGED <<orgVars, calls, authVars>>

\* every link of the role deleted, whatever the request names
RemovePermissionsFromRole_AllLinks(roleID, permissionIDs) ==
    /\ IF ~GetRoleByID(roleID)
       THEN /\ ret' = [err |-> ErrGetRole, op |-> "RemovePermissionsFromRole"]
            /\ UNCHANGED rolePermissions
       ELSE /\ rolePermissions' = {rp \in rolePermissions : rp.role_id # roleID}
            /\ ret' = [err |-> ErrNone, op |-> "RemovePermissionsFromRole"]
    /\ UNCHANGED <<orgVars, calls, linkTx, authRoles, authPermissions, userRoles, organizationRoles,
                   teamRoles, lastAuthRoleID, lastPermissionID>>

RemovePermissionsFromRole(roleID, permissionIDs) ==
    /\ IF ~GetRoleByID(roleID)
       THEN /\ ret' = [err |-> ErrGetRole, op |-> "RemovePermissionsFromRole"]
            /\ UNCHANGED rolePermissions
       ELSE /\ rolePermissions' =
                 {rp \in rolePermissions :
                     ~(rp.role_id = roleID /\ rp.permission_id \in Range(permissionIDs))}
            /\ ret' = [err |-> ErrNone, op |-> "RemovePermissionsFromRole"]
    /\ UNCHANGED <<orgVars, calls, linkTx, authRoles, authPermissions, userRoles, organizationRoles,
                   teamRoles, lastAuthRoleID, lastPermissionID>>

\* AssignRoleToUser of caller c up to its insert: GetRoleByID and CheckUserRole
AssignRoleToUserCheck(c, req) ==
    /\ calls[c] = <<>>
    /\ IF ~GetRoleByID(req.role_id)
       THEN /\ ret' = [err |-> ErrGetRole, op |-> "AssignRoleToUser", req |-> req]
            /\ UNCHANGED calls
       ELSE IF CheckUserRole(req.user_id, req.role_id)
       THEN /\ ret' = [err |-> ErrAlreadyHasRole, op |-> "AssignRoleToUser", req |-> req]
            /\ UNCHANGED calls
       ELSE /\ calls' = [calls EXCEPT ![c] =
                            <<[op |-> "AssignRoleToUser", pc |-> "Create", req |-> req]>>]
            /\ UNCHANGED ret
    /\ UNCHANGED <<orgVars, authVars>>

\* repo.AssignRoleToUser: db.Create of the binding, and the return
AssignRoleToUserCreate(c) ==
    /\ calls[c] # <<>>
    /\ calls[c][1].op = "AssignRoleToUser"
    /\ calls[c][1].pc = "Create"
    /\ LET req == calls[c][1].req
       IN /\ userRoles' = Append(userRoles,
                 [user_id |-> req.user_id, role_id |-> req.role_id,
                  expires_at |-> req.expires_at, is_active |-> TRUE])
          /\ ret' = [err |-> ErrNone, op |-> "AssignRoleToUser", req |-> req]
    /\ calls' = [calls EXCEPT ![c] = <<>>]
    /\ UNCHANGED <<orgVars, linkTx, authRoles, authPermissions, rolePermissions, organizationRoles,
                   teamRoles, lastAuthRoleID, lastPermissionID>>

AssignRoleToUser(req) ==
    /\ IF ~GetRoleByID(req.role_id)
       THEN /\ ret' = [err |-> ErrGetRole, op |-> "AssignRoleToUser", req |-> req]
            /\ UNCHANGED userRoles
       ELSE IF CheckUserRole(req.user_id, req.role_id)
       THEN /\ ret' = [err |-> ErrAlreadyHasRole, op |-> "AssignRoleToUser", req |-> req]
            /\ UNCHANGED userRoles
       ELSE /\ userRoles' = Append(userRoles,
                 [user_id |-> req.user_id, role_id |-> req.role_id,
                  expires_at |-> req.expires_at, is_active |-> TRUE])
            /\ ret' = [err |-> ErrNone, op |-> "AssignRoleToUser", req |-> req]
    /\ UNCHANGED <<orgVars, calls, linkTx, authRoles, authPermissions, rolePermissions, organizationRoles,
                   teamRoles, lastAuthRoleID, lastPermissionID>>

RemoveRoleFromUser(userID, roleID) ==
    /\ userRoles' = SelectSeq(userRoles,
                        LAMBDA b : ~(b.user_id = userID /\ b.role_id = roleID))
    /\ ret' = [err |-> ErrNone, op |-> "RemoveRoleFromUser"]
    /\ UNCHANGED <<orgVars, calls, linkTx, authRoles, authPermissions, rolePermissions, organizationRoles,
                   teamRoles, lastAuthRoleID, lastPermissionID>>

AssignOrganizationRole(req) ==
    /\ IF ~GetRoleByID(req.role_id)
       THEN /\ ret' = [err |-> ErrGetRole, op |-> "AssignOrganizationRole", req |-> req]
            /\ UNCHANGED organizationRoles
       ELSE /\ organizationRoles' = Append(organizationRoles,
                 [user_id |-> req.user_id, organization_id |-> req.organization_id,
                  role_id |-> req.role_id, is_active |-> TRUE])
            /\ ret' = [err |-> ErrNone, op |-> "AssignOrganizationRole", req |-> req]
    /\ UNCHANGED <<orgVars, calls, linkTx, authRoles, authPermissions, rolePermissions, userRoles,
                   teamRoles, lastAuthRoleID, lastPermissionID>>

RemoveOrganizationRole(userID, organizationID, roleID) ==
    /\ organizationRoles' = SelectSeq(organizationRoles,
            LAMBDA b : ~(/\ b.user_id = userID
                         /\ b.organization_id = organizationID
                         /\ b.role_id = roleID))
    /\ ret' = [err |-> ErrNone, op |-> "RemoveOrganizationRole"]
    /\ UNCHANGED <<orgVars, calls, linkTx, authRoles, authPermissions, rolePermissions, userRoles,
                   teamRoles, lastAuthRoleID, lastPermissionID>>

AssignTeamRole(req) ==
    /\ IF ~GetRoleByID(req.role_id)
       THEN /\ ret' = [err |-> ErrGetRole, op |-> "AssignTeamRole", req |-> req]
            /\ UNCHANGED teamRoles
       ELSE /\ teamRoles' = Append(teamRoles,
                 [user_id |-> req.user_id, role_id |-> req.role_id,
                  team_id |-> req.team_id, is_active |-> TRUE])
            /\ ret' = [err |-> ErrNone, op |-> "AssignTeamRole", req |-> req]
    /\ UNCHANGED <<orgVars, calls, linkTx, authRoles, authPermissions, rolePermissions, userRoles,
                   organizationRoles, lastAuthRoleID, lastPermissionID>>

RemoveTeamRole(userID, teamID, roleID) ==
    /\ teamRoles' = SelectSeq(teamRoles,
            LAMBDA b : ~(b.user_id = userID /\ b.team_id = teamID /\ b.role_id = roleID))
    /\ ret' = [err |-> ErrNone, op |-> "RemoveTeamRole"]
    /\ UNCHANGED <<orgVars, calls, linkTx, authRoles, authPermissions, rolePermissions, userRoles,
                   organizationRoles, lastAuthRoleID, lastPermissionID>>

\* Preload("Role"): the level of the bound role, the zero value if the row is gone
RoleLevelOf(roleID) == IF GetRoleByID(roleID) THEN FirstRow(AuthRoleRows(roleID)).level ELSE 0

\* maxLevel after the loop over the first k of the user's roles
RECURSIVE MaxLevelUpTo(_, _)
MaxLevelUpTo(userRolesOf, k) ==
    IF k = 0 THEN 0
    ELSE LET maxLevel == MaxLevelUpTo(userRolesOf, k - 1)
             level == RoleLevelOf(userRolesOf[k].role_id)
         IN IF level > maxLevel THEN level ELSE maxLevel

\* the user's roles hold one named "super_admin"
IsSuperAdmin(userID) ==
    \E b \in Range(GetUserRoles(userID)) : RoleNameOf(b.role_id) = "super_admin"

\* Middleware.RequirePermission for a request that carries the user id; next tells
\* whether c.Next() was called
RequirePermission(userID, requiredPermission) ==
    /\ ret' = [user_id |-> userID, op |-> "RequirePermission",
               next |-> IF ~CheckUserPermission(userID, requiredPermission)
                        THEN IsSuperAdmin(userID)
                        ELSE TRUE]
    /\ UNCHANGED <<orgVars, calls, authVars>>

\* Middleware.RequireRole
RequireRole(userID, requiredRole) ==
    /\ ret' = [user_id |-> userID, op |-> "RequireRole",
               next |-> \E b \in Range(GetUserRoles(userID)) :
                           \/ RoleNameOf(b.role_id) = requiredRole
                           \/ RoleNameOf(b.role_id) = "super_admin"]
    /\ UNCHANGED <<orgVars, calls, authVars>>

\* Middleware.RequireLevel
RequireLevel(userID, requiredLevel) ==
    /\ LET maxLevel == MaxLevelUpTo(GetUserRoles(userID), Len(GetUserRoles(userID)))
       IN ret' = [user_id |-> userID, op |-> "RequireLevel",
                  next |-> ~(maxLevel < requiredLevel)]
    /\ UNCHANGED <<orgVars, calls, authVars>>

\* the store after RunMigrations, before any authorization data is written
AuthInit ==
    /\ AuthEmpty
    /\ organizations = {}
    /\ teams = {}
    /\ orgRoles = SeededRoles
    /\ members = {}
    /\ invitations = <<>>
    /\ lastRoleID = SeedCount
    /\ lastMemberID = 0
    /\ now = 0
    /\ ret = [err |-> ErrNone, op |-> "init"]

-----------------------------------------------------------------------------
(* ResolverSpec: roles, permissions, links and one binding per scope, queried by
   CheckPermission *)

ResolverRoleNames == {"editor", "viewer"}
\* the permission that is created, and the names CheckPermission is asked about
ResolverPermissionNames == {"users.create"}
ResolverRequestedNames == {"users.create", "users.read"}
ResolverUserIDs == {1}
ResolverOrgIDs == {1}
ResolverTeamIDs == {1}

\* the lists of at most two permission ids a request carries
PermissionIDLists ==
    {<<>>} \cup {<<a>> : a \in 1..MaxResolverPermissions}
           \cup {<<a, b>> : a \in 1..MaxResolverPermissions, b \in 1..MaxResolverPermissions}

ResolverBounded ==
    /\ lastAuthRoleID' <= MaxResolverRoles
    /\ lastPermissionID' <= MaxResolverPermissions
    /\ Len(userRoles') <= MaxResolverBindings
    /\ Len(organizationRoles') <= MaxResolverBindings
    /\ Len(teamRoles') <= MaxResolverBindings

ResolverNext ==
    \/ \E n \in ResolverRoleNames, st \in {RoleActive, RoleDisabled} :
            AuthCreateRole([status |-> st, name |-> n, display_name |-> n, level |-> 0])
            /\ ResolverBounded
    \/ \E n \in ResolverPermissionNames :
            CreatePermission([status |-> 1, name |-> n]) /\ ResolverBounded
    \/ \E r \in 1..MaxResolverRoles, ids \in PermissionIDLists :
            AssignPermissionsToRole(r, ids)
    \/ \E u \in ResolverUserIDs, r \in 1..MaxResolverRoles :
            AssignRoleToUser([user_id |-> u, role_id |-> r, expires_at |-> Nil])
            /\ ResolverBounded
    \/ \E u \in ResolverUserIDs, o \in ResolverOrgIDs, r \in 1..MaxResolverRoles :
            AssignOrganizationRole([user_id |-> u, organization_id |-> o, role_id |-> r])
            /\ ResolverBounded
    \/ \E u \in ResolverUserIDs, t \in ResolverTeamIDs, r \in 1..MaxResolverRoles :
            AssignTeamRole([user_id |-> u, role_id |-> r, team_id |-> t])
            /\ ResolverBounded
    \/ \E u \in ResolverUserIDs, n \in ResolverRequestedNames,
          o \in {Nil} \cup ResolverOrgIDs, t \in {Nil} \cup ResolverTeamIDs :
            AuthCheckPermission([user_id |-> u, organization_id |-> o,
                                 permission |-> n, team_id |-> t])

ResolverSpec == AuthInit /\ [][ResolverNext]_vars

-----------------------------------------------------------------------------
(* WildcardSpec: one role, the permission named "*" and one binding per scope *)

WildcardRoleNames == {"admin"}
WildcardPermissionNames == {"users.create", "*"}

WildcardNext ==
    \/ \E n \in WildcardRoleNames :
            AuthCreateRole([status |-> RoleActive, name |-> n, display_name |-> n, level |-> 0])
            /\ ResolverBounded
    \/ \E n \in WildcardPermissionNames :
            CreatePermission([status |-> 1, name |-> n]) /\ ResolverBounded
    \/ \E r \in 1..MaxResolverRoles, ids \in PermissionIDLists :
            AssignPermissionsToRole(r, ids)
    \/ \E u \in ResolverUserIDs, r \in 1..MaxResolverRoles :
            AssignRoleToUser([user_id |-> u, role_id |-> r, expires_at |-> Nil])
            /\ ResolverBounded
    \/ \E u \in ResolverUserIDs, o \in ResolverOrgIDs, r \in 1..MaxResolverRoles :
            AssignOrganizationRole([user_id |-> u, organization_id |-> o, role_id |-> r])
            /\ ResolverBounded
    \/ \E u \in ResolverUserIDs, t \in ResolverTeamIDs, r \in 1..MaxResolverRoles :
            AssignTeamRole([user_id |-> u, role_id |-> r, team_id |-> t])
            /\ ResolverBounded
    \/ \E u \in ResolverUserIDs, n \in WildcardPermissionNames,
          o \in {Nil} \cup ResolverOrgIDs, t \in {Nil} \cup ResolverTeamIDs :
            AuthCheckPermission([user_id |-> u, organization_id |-> o,
                                 permission |-> n, team_id |-> t])

WildcardSpec == AuthInit /\ [][WildcardNext]_vars

-----------------------------------------------------------------------------
(* GlobalBindingSpec: binding and unbinding roles at global scope *)

BindingUserIDs == {1, 2}
BindingOrgIDs == {1}
BindingTeamIDs == {1}

GlobalBindingBounded ==
    /\ lastAuthRoleID' <= MaxBindingRoles
    /\ Len(userRoles') <= MaxBindings

GlobalBindingNext ==
    \/ \E n \in ResolverRoleNames :
            AuthCreateRole([status |-> RoleActive, name |-> n, display_name |-> n, level |-> 0])
            /\ GlobalBindingBounded
    \/ \E u \in BindingUserIDs, r \in 1..MaxBindingRoles :
            AssignRoleToUser([user_id |-> u, role_id |-> r, expires_at |-> Nil])
            /\ GlobalBindingBounded
    \/ \E u \in BindingUserIDs, r \in 1..MaxBindingRoles : RemoveRoleFromUser(u, r)

GlobalBindingSpec == AuthInit /\ [][GlobalBindingNext]_vars

-----------------------------------------------------------------------------
(* ScopedBindingSpec: binding and unbinding roles in an organization and in a team *)

ScopedBindingBounded ==
    /\ lastAuthRoleID' <= MaxBindingRoles
    /\ Len(organizationRoles') <= MaxScopedBindings
    /\ Len(teamRoles') <= MaxScopedBindings

ScopedBindingNext ==
    \/ \E n \in ResolverRoleNames :
            AuthCreateRole([status |-> RoleActive, name |-> n, display_name |-> n, level |-> 0])
            /\ ScopedBindingBounded
    \/ \E u \in BindingUserIDs, o \in BindingOrgIDs, r \in 1..MaxBindingRoles :
            AssignOrganizationRole([user_id |-> u, organization_id |-> o, role_id |-> r])
            /\ ScopedBindingBounded
    \/ \E u \in BindingUserIDs, o \in BindingOrgIDs, r \in 1..MaxBindingRoles :
            RemoveOrganizationRole(u, o, r)
    \/ \E u \in BindingUserIDs, t \in BindingTeamIDs, r \in 1..MaxBindingRoles :
            AssignTeamRole([user_id |-> u, role_id |-> r, team_id |-> t])
            /\ ScopedBindingBounded
    \/ \E u \in BindingUserIDs, t \in BindingTeamIDs, r \in 1..MaxBindingRoles :
            RemoveTeamRole(u, t, r)

ScopedBindingSpec == AuthInit /\ [][ScopedBindingNext]_vars

-----------------------------------------------------------------------------
(* RegistrySpec: the role and permission registry with the system roles *)

RegistryRoleNames == {"admin", "editor"}
RegistryUserIDs == {1}
\* an update that sets nothing and one that sets every field
UpdateRoleRequests ==
    {[status |-> <<>>, display_name |-> <<>>, level |-> <<>>],
     [status |-> <<RoleDisabled>>, display_name |-> <<"renamed">>, level |-> <<50>>]}
\* the roles that are bound to users and the roles that are linked to permissions
RegistryBoundRoleIDs == {1, 2}
RegistryLinkedRoleIDs == {1}

RegistryBounded ==
    /\ lastAuthRoleID' <= MaxRegistryRoleID
    /\ lastPermissionID' <= MaxRegistryPermissions
    /\ Len(userRoles') <= MaxRegistryBindings

RegistryNext ==
    \/ InitializeSystemRoles /\ RegistryBounded
    \/ \E n \in RegistryRoleNames :
            AuthCreateRole([status |-> RoleActive, name |-> n, display_name |-> n, level |-> 0])
            /\ RegistryBounded
    \/ \E id \in 1..MaxRegistryRoleID, req \in UpdateRoleRequests : AuthUpdateRole(id, req)
    \/ \E id \in 1..MaxRegistryRoleID : AuthDeleteRole(id)
    \/ \E n \in {"users.create"} :
            CreatePermission([status |-> 1, name |-> n]) /\ RegistryBounded
    \/ \E id \in 1..MaxRegistryPermissions, st \in Ptr({0}) :
            UpdatePermission(id, [status |-> st])
    \/ \E id \in 1..MaxRegistryPermissions : DeletePermission(id)
    \/ \E r \in RegistryLinkedRoleIDs,
          ids \in {<<>>} \cup {<<a>> : a \in 1..MaxRegistryPermissions} :
            AssignPermissionsToRole(r, ids)
    \/ \E r \in RegistryLinkedRoleIDs,
          ids \in {<<a>> : a \in 1..MaxRegistryPermissions} :
            RemovePermissionsFromRole(r, ids)
    \/ \E u \in RegistryUserIDs, r \in RegistryBoundRoleIDs :
            AssignRoleToUser([user_id |-> u, role_id |-> r, expires_at |-> Nil])
            /\ RegistryBounded
    \/ \E u \in RegistryUserIDs, r \in RegistryBoundRoleIDs : RemoveRoleFromUser(u, r)

RegistrySpec == AuthInit /\ [][RegistryNext]_vars

-----------------------------------------------------------------------------
(* LinkSpec: the links between roles and permissions *)

LinkRoleNames == {"editor", "viewer"}
LinkPermissionNames == {"users.create", "users.read", "users.delete"}

\* the lists of at most two permission ids a request carries, repetitions included
LinkIDLists ==
    {<<>>} \cup {<<a>> : a \in 1..MaxLinkPermissions}
           \cup {<<a, b>> : a \in 1..MaxLinkPermissions, b \in 1..MaxLinkPermissions}

LinkBounded ==
    /\ lastAuthRoleID' <= MaxLinkRoles
    /\ lastPermissionID' <= MaxLinkPermissions

LinkNext ==
    \/ \E n \in LinkRoleNames :
            AuthCreateRole([status |-> RoleActive, name |-> n, display_name |-> n, level |-> 0])
            /\ LinkBounded
    \/ \E n \in LinkPermissionNames :
            CreatePermission([status |-> 1, name |-> n]) /\ LinkBounded
    \/ \E r \in 1..MaxLinkRoles, ids \in LinkIDLists : AssignPermissionsToRole(r, ids)
    \/ \E r \in 1..MaxLinkRoles, ids \in LinkIDLists : RemovePermissionsFromRole(r, ids)

LinkSpec == AuthInit /\ [][LinkNext]_vars

-----------------------------------------------------------------------------
(* TxSpec: the transaction that replaces a role's links, step by step, and the readers
   that run between its steps *)

TxRoleNames == {"editor"}
TxPermissionNames == {"users.create", "users.read"}
TxUserIDs == {1}

TxIDLists ==
    {<<>>} \cup {<<a>> : a \in 1..MaxTxPermissions}
           \cup {<<a, b>> : a \in 1..MaxTxPermissions, b \in 1..MaxTxPermissions}

TxBounded ==
    /\ lastAuthRoleID' <= MaxTxRoles
    /\ lastPermissionID' <= MaxTxPermissions
    /\ Len(userRoles') <= MaxTxBindings

TxNext ==
    \/ \E n \in TxRoleNames :
            AuthCreateRole([status |-> RoleActive, name |-> n, display_name |-> n, level |-> 0])
            /\ TxBounded
    \/ \E n \in TxPermissionNames :
            CreatePermission([status |-> 1, name |-> n]) /\ TxBounded
    \/ \E u \in TxUserIDs, r \in 1..MaxTxRoles :
            AssignRoleToUser([user_id |-> u, role_id |-> r, expires_at |-> Nil])
            /\ TxBounded
    \/ \E r \in 1..MaxTxRoles, ids \in TxIDLists : AssignPermissionsToRoleBegin(r, ids)
    \/ TxDeleteLinks
    \/ TxCreateLinks
    \/ TxCommit
    \/ \E r \in 1..MaxTxRoles : CallGetRolePermissions(r)
    \/ \E u \in TxUserIDs, n \in TxPermissionNames : CallCheckUserPermission(u, n)

TxSpec == AuthInit /\ [][TxNext]_vars

-----------------------------------------------------------------------------
(* RoleUseSpec: roles that are bound at the three scopes and deleted *)

RoleUseBounded ==
    /\ lastAuthRoleID' <= MaxUseRoles
    /\ Len(userRoles') <= MaxUseBindings
    /\ Len(organizationRoles') <= MaxUseBindings
    /\ Len(teamRoles') <= MaxUseBindings

RoleUseNext ==
    \/ \E n \in ResolverRoleNames :
            AuthCreateRole([status |-> RoleActive, name |-> n, display_name |-> n, level |-> 0])
            /\ RoleUseBounded
    \/ \E u \in BindingUserIDs, r \in 1..MaxUseRoles :
            AssignRoleToUser([user_id |-> u, role_id |-> r, expires_at |-> Nil])
            /\ RoleUseBounded
    \/ \E u \in BindingUserIDs, o \in BindingOrgIDs, r \in 1..MaxUseRoles :
            AssignOrganizationRole([user_id |-> u, organization_id |-> o, role_id |-> r])
            /\ RoleUseBounded
    \/ \E u \in BindingUserIDs, t \in BindingTeamIDs, r \in 1..MaxUseRoles :
            AssignTeamRole([user_id |-> u, role_id |-> r, team_id |-> t])
            /\ RoleUseBounded
    \/ \E id \in 1..MaxUseRoles : AuthDeleteRole(id)

RoleUseSpec == AuthInit /\ [][RoleUseNext]_vars

-----------------------------------------------------------------------------
(* ExpirySpec: global bindings with and without an expiry time, read while the clock
   moves *)

ExpiryRoleNames == {"editor"}
ExpiryPermissionNames == {"users.create"}
ExpiryUserIDs == {1}
\* AssignRoleRequest.ExpiresAt: nil, or a time between two readings of the clock
ExpiryTimes == {Nil, ClockStep \div 2}

ExpiryBounded ==
    /\ lastAuthRoleID' <= MaxExpiryRoles
    /\ lastPermissionID' <= MaxExpiryPermissions
    /\ Len(userRoles') <= MaxExpiryBindings
    /\ now' <= MaxNow

ExpiryNext ==
    \/ \E n \in ExpiryRoleNames :
            AuthCreateRole([status |-> RoleActive, name |-> n, display_name |-> n, level |-> 0])
            /\ ExpiryBounded
    \/ \E n \in ExpiryPermissionNames :
            CreatePermission([status |-> 1, name |-> n]) /\ ExpiryBounded
    \/ \E r \in 1..MaxExpiryRoles, ids \in {<<>>} \cup {<<a>> : a \in 1..MaxExpiryPermissions} :
            AssignPermissionsToRole(r, ids)
    \/ \E u \in ExpiryUserIDs, r \in 1..MaxExpiryRoles, e \in ExpiryTimes :
            AssignRoleToUser([user_id |-> u, role_id |-> r, expires_at |-> e])
            /\ ExpiryBounded
    \/ \E u \in ExpiryUserIDs, r \in 1..MaxExpiryRoles : RemoveRoleFromUser(u, r)
    \/ \E u \in ExpiryUserIDs : CallGetUserRoles(u)
    \/ \E u \in ExpiryUserIDs, r \in 1..MaxExpiryRoles : CallCheckUserRole(u, r)
    \/ \E u \in ExpiryUserIDs, n \in ExpiryPermissionNames :
            AuthCheckPermission([user_id |-> u, organization_id |-> Nil,
                                 permission |-> n, team_id |-> Nil])
    \/ Tick /\ ExpiryBounded

ExpirySpec == AuthInit /\ [][ExpiryNext]_vars

-----------------------------------------------------------------------------
(* MiddlewareSpec: the system roles, one more role and the three route guards *)

MiddlewareRoleNames == {"editor"}
MiddlewarePermissionNames == {"users.create"}
MiddlewareUserIDs == {1}
\* the names and the thresholds the routes ask for
RequiredRoles == {"admin", "editor"}
RequiredLevels == {500, 1001}

MiddlewareBounded ==
    /\ lastAuthRoleID' <= MaxMiddlewareRoleID
    /\ lastPermissionID' <= MaxMiddlewarePermissions
    /\ Len(userRoles') <= MaxMiddlewareBindings

MiddlewareNext ==
    \/ InitializeSystemRoles /\ MiddlewareBounded
    \/ \E n \in MiddlewareRoleNames :
            AuthCreateRole([status |-> RoleActive, name |-> n, display_name |-> n, level |-> 50])
            /\ MiddlewareBounded
    \/ \E n \in MiddlewarePermissionNames :
            CreatePermission([status |-> 1, name |-> n]) /\ MiddlewareBounded
    \/ \E r \in 1..MaxMiddlewareRoleID,
          ids \in {<<>>} \cup {<<a>> : a \in 1..MaxMiddlewarePermissions} :
            AssignPermissionsToRole(r, ids)
    \/ \E u \in MiddlewareUserIDs, r \in 1..MaxMiddlewareRoleID :
            AssignRoleToUser([user_id |-> u, role_id |-> r, expires_at |-> Nil])
            /\ MiddlewareBounded
    \/ \E u \in MiddlewareUserIDs, r \in 1..MaxMiddlewareRoleID : RemoveRoleFromUser(u, r)
    \/ \E u \in MiddlewareUserIDs, n \in MiddlewarePermissionNames : RequirePermission(u, n)
    \/ \E u \in MiddlewareUserIDs, n \in RequiredRoles : RequireRole(u, n)
    \/ \E u \in MiddlewareUserIDs, l \in RequiredLevels : RequireLevel(u, l)

MiddlewareSpec == AuthInit /\ [][MiddlewareNext]_vars

-----------------------------------------------------------------------------
(* ScopedRoleSpec: roles are created in and deleted from an organization whose
   members hold them *)

ScopedRoleNames == {"editor"}
ScopedRoleOrgIDs == {1}
ScopedRoleIDs == 1..(SeedCount + MaxScopedRoles)
\* the roles members are given: the first row and the first role created after the seed
ScopedMemberRoleIDs == {1, SeedCount + 1}
ScopedUserIDs == {1}

ScopedRoleBounded ==
    /\ Cardinality(organizations') <= MaxScopedOrgs
    /\ lastRoleID' <= SeedCount + MaxScopedRoles
    /\ Cardinality(orgRoles' \ SeededRoles) <= MaxScopedRoles
    /\ lastMemberID' <= MaxScopedMemberID

ScopedRoleNext ==
    \/ \E u \in {1} : CreateOrganization(u) /\ ScopedRoleBounded
    \/ \E n \in ScopedRoleNames, o \in ScopedRoleOrgIDs :
            CreateRole(n, o, PermTeams, FALSE) /\ ScopedRoleBounded
    \/ \E id \in ScopedRoleIDs : DeleteRole(id)
    \/ \E u \in ScopedUserIDs, o \in 1..MaxScopedOrgs, r \in ScopedMemberRoleIDs :
            AddMember(u, o, Nil, r, MemberActive) /\ ScopedRoleBounded
    \/ \E i \in 1..MaxScopedMemberID, u \in ScopedUserIDs, o \in 1..MaxScopedOrgs,
          r \in ScopedMemberRoleIDs :
            UpdateMember([id |-> i, status |-> MemberActive, user_id |-> u,
                          organization_id |-> o, role_id |-> r, team_id |-> Nil])
    \/ \E i \in 1..MaxScopedMemberID : RemoveMember(i)

ScopedRoleSpec == OrgInit /\ [][ScopedRoleNext]_vars

-----------------------------------------------------------------------------
(* InvitationRaceSpec: callers accept invitations at the same time; each storage
   call of ProcessInvitation is a step of its own *)

InvitationRaceBounded ==
    /\ Cardinality(organizations') <= 1
    /\ lastMemberID' <= MaxRaceMemberID
    /\ Len(invitations') <= MaxRaceInvitations
    /\ now' <= MaxNow

InvitationRaceNext ==
    \/ \E u \in InviterIDs : CreateOrganization(u) /\ InvitationRaceBounded
    \/ \E r \in {1, 2}, u \in InviterIDs : InviteMember(1, Nil, r, u) /\ InvitationRaceBounded
    \/ \E c \in Callers, k \in 1..MaxRaceInvitations, u \in UserIDs :
            ProcessInvitationLoad(c, TokenOf(k), u)
    \/ \E c \in Callers : ProcessInvitationUpdate(c)
    \/ \E c \in Callers : ProcessInvitationAddMember(c) /\ InvitationRaceBounded
    \/ Tick /\ InvitationRaceBounded

InvitationRaceSpec == OrgInit /\ [][InvitationRaceNext]_vars

-----------------------------------------------------------------------------
(* BindingRaceSpec: callers assign global roles at the same time; the check and the
   insert of AssignRoleToUser are steps of their own *)

RaceRoleNames == {"editor"}
RaceUserIDs == {1, 2}

BindingRaceBounded ==
    /\ lastAuthRoleID' <= MaxRaceRoles
    /\ Len(userRoles') <= MaxRaceBindings

BindingRaceNext ==
    \/ \E n \in RaceRoleNames :
            AuthCreateRole([status |-> RoleActive, name |-> n, display_name |-> n, level |-> 0])
            /\ BindingRaceBounded
    \/ \E c \in Callers, u \in RaceUserIDs, r \in 1..MaxRaceRoles :
            AssignRoleToUserCheck(c, [user_id |-> u, role_id |-> r, expires_at |-> Nil])
    \/ \E c \in Callers : AssignRoleToUserCreate(c) /\ BindingRaceBounded
    \/ \E u \in RaceUserIDs, r \in 1..MaxRaceRoles : RemoveRoleFromUser(u, r)

BindingRaceSpec == AuthInit /\ [][BindingRaceNext]_vars

-----------------------------------------------------------------------------
(* SystemRoleSpec: roles are created by hand before and after the system roles are
   installed *)

InitRoleNames == {"admin", "user", "editor"}

SystemRoleBounded == lastAuthRoleID' <= MaxInitRoleID

SystemRoleNext ==
    \/ InitializeSystemRoles /\ SystemRoleBounded
    \/ \E n \in InitRoleNames, l \in {0, 900} :
            AuthCreateRole([status |-> RoleActive, name |-> n, display_name |-> n, level |-> l])
            /\ SystemRoleBounded

SystemRoleSpec == AuthInit /\ [][SystemRoleNext]_vars

-----------------------------------------------------------------------------
(* TenantSpec: two organizations with roles of their own; members are added,
   updated and invited with any existing role *)

TenantRoleIDs == {1, 2, SeedCount + 1}
TenantUserIDs == {2}

TenantBounded ==
    /\ Cardinality(organizations') <= MaxTenantOrgs
    /\ lastRoleID' <= SeedCount + MaxTenantRoles
    /\ Cardinality(orgRoles' \ SeededRoles) <= MaxTenantRoles
    /\ lastMemberID' <= MaxTenantMemberID
    /\ Len(invitations') <= MaxTenantInvitations

TenantNext ==
    \/ \E u \in InviterIDs : CreateOrganization(u) /\ TenantBounded
    \/ \E o \in 1..MaxTenantOrgs : CreateRole("editor", o, PermTeams, FALSE) /\ TenantBounded
    \/ \E u \in TenantUserIDs, o \in 1..MaxTenantOrgs, r \in TenantRoleIDs :
            AddMember(u, o, Nil, r, MemberActive) /\ TenantBounded
    \/ \E i \in 1..MaxTenantMemberID, u \in InviterIDs \cup TenantUserIDs,
          o \in 1..MaxTenantOrgs, r \in TenantRoleIDs :
            UpdateMember([id |-> i, status |-> MemberActive, user_id |-> u,
                          organization_id |-> o, role_id |-> r, team_id |-> Nil])
    \/ \E o \in 1..MaxTenantOrgs, r \in TenantRoleIDs, u \in InviterIDs :
            InviteMember(o, Nil, r, u) /\ TenantBounded
    \/ \E k \in 1..MaxTenantInvitations, u \in TenantUserIDs :
            ProcessInvitation(TokenOf(k), u) /\ TenantBounded

TenantSpec == OrgInit /\ [][TenantNext]_vars

-----------------------------------------------------------------------------
(* GrantSpec: the permission queries over every content of the tables they join: one
   role, one permission and one member, each enabled or disabled, with and without
   the link and the bindings *)

GrantUserIDs == {1}
GrantPermissionNames == {"users.create"}
\* the sequences of at most MaxGrantBindings rows drawn from S
RECURSIVE RowsUpTo(_, _)
RowsUpTo(S, n) ==
    IF n = 0 THEN {<<>>}
    ELSE RowsUpTo(S, n - 1) \cup {Append(s, x) : s \in RowsUpTo(S, n - 1), x \in S}

GrantInit ==
    /\ organizations = {1}
    /\ teams = {[id |-> 1, organization_id |-> 1]}
    /\ orgRoles = {[id |-> 1, organization_id |-> 1, permissions |-> PermAll,
                    name |-> "admin", is_default |-> FALSE]}
    /\ lastRoleID = 1
    /\ \E s \in {MemberPending, MemberActive, MemberDisabled} :
          members = {[id |-> 1, status |-> s, user_id |-> 1, organization_id |-> 1,
                      role_id |-> 1, team_id |-> Nil]}
    /\ lastMemberID = 1
    /\ invitations = <<>>
    /\ now = 0
    /\ \E st \in {RoleActive, RoleDisabled} :
          authRoles = {[id |-> 1, status |-> st, name |-> "editor",
                        display_name |-> "editor", level |-> 0, is_system |-> FALSE]}
    /\ lastAuthRoleID = 1
    /\ \E st \in {0, 1} :
          authPermissions = {[id |-> 1, status |-> st, name |-> "users.create",
                              is_system |-> FALSE]}
    /\ lastPermissionID = 1
    /\ rolePermissions \in {{}, {[role_id |-> 1, permission_id |-> 1]}}
    /\ userRoles \in RowsUpTo({[user_id |-> 1, role_id |-> 1, expires_at |-> Nil,
                                is_active |-> a] : a \in BOOLEAN}, MaxGrantBindings)
    /\ organizationRoles \in RowsUpTo({[user_id |-> 1, organization_id |-> 1, role_id |-> 1,
                                        is_active |-> a] : a \in BOOLEAN}, MaxGrantBindings)
    /\ teamRoles \in RowsUpTo({[user_id |-> 1, role_id |-> 1, team_id |-> 1,
                                is_active |-> a] : a \in BOOLEAN}, MaxGrantBindings)
    /\ linkTx = <<>>
    /\ calls = [c \in Callers |-> <<>>]
    /\ ret = [err |-> ErrNone, op |-> "init"]

GrantNext ==
    \/ \E u \in GrantUserIDs, n \in GrantPermissionNames, o \in {Nil, 1}, t \in {Nil, 1} :
            AuthCheckPermission([user_id |-> u, organization_id |-> o,
                                 permission |-> n, team_id |-> t])
    \/ \E u \in GrantUserIDs : GetUserPermissionsSummary(u)
    \/ \E u \in GrantUserIDs, n \in GrantPermissionNames : CallCheckPermission(u, 1, n)

GrantSpec == GrantInit /\ [][GrantNext]_vars

-----------------------------------------------------------------------------
(* Claims about the invitation workflow and memberships *)

\* C1: an invitation's status changes at most once: once it has left pending (0)
\* for accepted, rejected or expired, no later call changes its persisted status.
C1_StatusChangesAtMostOnce ==
    [][\A i \in DOMAIN invitations :
          invitations[i].status # StatusPending
            => invitations'[i].status = invitations[i].status]_vars

\* C2: the ProcessInvitation call on a pending invitation past its expiry fails with
\* Expired and leaves the status expired with no Membership created, and the next
\* ProcessInvitation call with the same token fails with AlreadyProcessed, not Expired.
C2_ExpiredOnlyOnce ==
    [][(/\ ret.op = "ProcessInvitation"
        /\ ret.err = ErrExpired
        /\ ret.loaded = StatusPending
        /\ ret' # ret
        /\ ret'.op = "ProcessInvitation"
        /\ ret'.token = ret.token)
         => (/\ \A i \in GetInvitationByToken(ret.token) :
                    invitations[i].status = StatusExpired
             /\ ret'.err = ErrAlreadyProcessed
             /\ members' = members)]_vars

\* C3: there is at most one Membership with status active for any (user, organization)
\* pair, in every state the member and invitation operations reach.
C3_AtMostOneActiveMembership ==
    \A m1 \in members, m2 \in members :
        (/\ m1.user_id = m2.user_id
         /\ m1.organization_id = m2.organization_id
         /\ m1.status = MemberActive
         /\ m2.status = MemberActive) => m1.id = m2.id

\* C4: after CreateOrganization(O, U1) succeeds, U1 has an active Membership in O and
\* CheckPermission(U1, O, "teams.create") returns true.
C4_CreatorMayCreateTeams ==
    (ret.op = "CreateOrganization" /\ ret.err = ErrNone) =>
        /\ \E m \in members : /\ m.user_id = ret.user
                               /\ m.organization_id = ret.org
                               /\ m.status = MemberActive
        /\ CheckPermission(ret.user, ret.org, "teams.create").ok

-----------------------------------------------------------------------------
(* Claims about the permission resolver *)

\* C5: a role carrying the universal-grant marker (an active role linked to the active
\* permission named "*") satisfies every permission-name check at the scope it is bound
\* at: a user bound to it globally, in the organization asked about or in the team asked
\* about is granted whatever permission name CheckPermission is asked for.
C5_UniversalGrantSatisfiesEveryCheck ==
    ret.op = "CheckPermission" =>
        LET req == ret.req
            Universal(roleID) ==
                \E r \in authRoles, rp \in rolePermissions, p \in authPermissions :
                    /\ r.id = roleID /\ r.status = RoleActive
                    /\ rp.role_id = roleID /\ rp.permission_id = p.id
                    /\ p.name = "*" /\ p.status = 1
            boundTo ==
                {b.role_id : b \in {x \in Range(userRoles) : x.user_id = req.user_id}}
                \cup {b.role_id : b \in {x \in Range(organizationRoles) :
                                            /\ x.user_id = req.user_id
                                            /\ req.organization_id # Nil
                                            /\ x.organization_id = req.organization_id}}
                \cup {b.role_id : b \in {x \in Range(teamRoles) :
                                            /\ x.user_id = req.user_id
                                            /\ req.team_id # Nil
                                            /\ x.team_id = req.team_id}}
        IN (\E roleID \in boundTo : Universal(roleID)) => ret.resp.has_permission

\* C6: for a user with no global role granting P and an organization binding in O to a
\* role granting P, CheckPermission with org = O answers true with source
\* "organization"; with neither an organization id nor a team id it answers false; and
\* the source is "organization" or "team" only when that scope's id was supplied.
C6_OrganizationGrantNeedsOrganizationID ==
    ret.op = "CheckPermission" =>
        LET req == ret.req
            resp == ret.resp
            Grants(roleID) ==
                \E r \in authRoles, rp \in rolePermissions, p \in authPermissions :
                    /\ r.id = roleID /\ r.status = RoleActive
                    /\ rp.role_id = roleID /\ rp.permission_id = p.id
                    /\ p.name = req.permission /\ p.status = 1
            globalGrant ==
                \E b \in Range(userRoles) : b.user_id = req.user_id /\ Grants(b.role_id)
            orgGrant(o) ==
                \E b \in Range(organizationRoles) :
                    b.user_id = req.user_id /\ b.organization_id = o /\ Grants(b.role_id)
        IN /\ (~globalGrant /\ req.organization_id # Nil /\ orgGrant(req.organization_id))
                => (resp.has_permission /\ resp.source = SourceOrganization)
           /\ (~globalGrant /\ req.organization_id = Nil /\ req.team_id = Nil)
                => ~resp.has_permission
           /\ resp.source = SourceOrganization => req.organization_id # Nil
           /\ resp.source = SourceTeam => req.team_id # Nil

C6_Witness ==
    /\ ret.op = "CheckPermission"
    /\ ret.req.organization_id # Nil
    /\ ret.resp.has_permission
    /\ ret.resp.source = SourceOrganization
    /\ ~CheckUserPermission(ret.req.user_id, ret.req.permission)
    /\ \E b \in Range(organizationRoles) :
          b.user_id = ret.req.user_id /\ b.organization_id = ret.req.organization_id

\* C7: CheckPermission resolves in strict precedence global > organization > team: the
\* source is "global" whenever a global role grants P, else "organization" when an
\* organization id is supplied and an organization role grants P, else "team" when a
\* team id is supplied and a team role grants P; otherwise the answer is false with an
\* empty source, and no error.
C7_StrictPrecedence ==
    ret.op = "CheckPermission" =>
        LET req == ret.req
            resp == ret.resp
            Grants(roleID) ==
                \E r \in authRoles, rp \in rolePermissions, p \in authPermissions :
                    /\ r.id = roleID /\ r.status = RoleActive
                    /\ rp.role_id = roleID /\ rp.permission_id = p.id
                    /\ p.name = req.permission /\ p.status = 1
            globalGrant ==
                \E b \in Range(userRoles) : b.user_id = req.user_id /\ Grants(b.role_id)
            orgGrant ==
                /\ req.organization_id # Nil
                /\ \E b \in Range(organizationRoles) :
                      /\ b.user_id = req.user_id
                      /\ b.organization_id = req.organization_id
                      /\ Grants(b.role_id)
            teamGrant ==
                /\ req.team_id # Nil
                /\ \E b \in Range(teamRoles) :
                      b.user_id = req.user_id /\ b.team_id = req.team_id /\ Grants(b.role_id)
            expected == IF globalGrant THEN SourceGlobal
                        ELSE IF orgGrant THEN SourceOrganization
                        ELSE IF teamGrant THEN SourceTeam
                        ELSE SourceNone
        IN /\ ret.err = ErrNone
           /\ resp.source = expected
           /\ resp.has_permission = (expected # SourceNone)

C7_Witness ==
    /\ ret.op = "CheckPermission"
    /\ ret.req.organization_id # Nil
    /\ ret.req.team_id # Nil
    /\ ret.resp.source = SourceGlobal
    /\ CheckUserOrganizationPermission(ret.req.user_id, ret.req.organization_id,
                                       ret.req.permission)
    /\ CheckUserTeamPermission(ret.req.user_id, ret.req.team_id, ret.req.permission)

-----------------------------------------------------------------------------
(* Claims about bindings *)

\* C8: at global scope, AssignRoleToUser for a (user, role) pair that is already bound
\* (no RemoveRoleFromUser since it was assigned) fails with "user already has this role"
\* and leaves the user-role bindings exactly as they were.
C8_SecondGlobalAssignRejected ==
    [][(/\ ret'.op = "AssignRoleToUser"
        /\ \E i \in DOMAIN userRoles : /\ userRoles[i].user_id = ret'.req.user_id
                                       /\ userRoles[i].role_id = ret'.req.role_id)
         => (ret'.err = ErrAlreadyHasRole /\ userRoles' = userRoles)]_vars

C8_Witness ==
    /\ ret.op = "AssignRoleToUser"
    /\ ret.err = ErrAlreadyHasRole
    /\ Len(SelectSeq(userRoles, LAMBDA b : /\ b.user_id = ret.req.user_id
                                           /\ b.role_id = ret.req.role_id)) = 1

\* C9: at organization scope and at team scope, assigning a (user, role) pair that is
\* already bound in the same organization (team) fails and leaves the bindings
\* unchanged, so a pair is bound at most once per organization and per team.
C9_SecondScopedAssignRejected ==
    [][/\ (/\ ret'.op = "AssignOrganizationRole"
           /\ \E i \in DOMAIN organizationRoles :
                 /\ organizationRoles[i].user_id = ret'.req.user_id
                 /\ organizationRoles[i].organization_id = ret'.req.organization_id
                 /\ organizationRoles[i].role_id = ret'.req.role_id)
            => (ret'.err # ErrNone /\ organizationRoles' = organizationRoles)
       /\ (/\ ret'.op = "AssignTeamRole"
           /\ \E i \in DOMAIN teamRoles :
                 /\ teamRoles[i].user_id = ret'.req.user_id
                 /\ teamRoles[i].team_id = ret'.req.team_id
                 /\ teamRoles[i].role_id = ret'.req.role_id)
            => (ret'.err # ErrNone /\ teamRoles' = teamRoles)]_vars

-----------------------------------------------------------------------------
(* Claims about the role registry *)

\* C10: UpdateRole and DeleteRole of a role with IsSystem = true fail with "cannot
\* update system role" / "cannot delete system role", and no registry operation changes
\* a stored field of a system role or removes it.
C10_SystemRolesImmutable ==
    [][/\ \A r \in authRoles : r.is_system => r \in authRoles'
       /\ (/\ ret'.op = "UpdateRole"
           /\ \E r \in authRoles : r.id = ret'.id /\ r.is_system)
            => ret'.err = ErrUpdateSystemRole
       /\ (/\ ret'.op = "DeleteRole"
           /\ \E r \in authRoles : r.id = ret'.id /\ r.is_system)
            => ret'.err = ErrDeleteSystemRole]_vars

C10_Witness ==
    /\ ret.op = "DeleteRole"
    /\ ret.err = ErrDeleteSystemRole
    /\ \E r \in authRoles : r.id = ret.id /\ r.is_system
    /\ \E r \in authRoles : ~r.is_system

-----------------------------------------------------------------------------
(* Claims about accepting an invitation *)

\* C13: ProcessInvitation on a pending invitation that has not expired succeeds, sets
\* the status to accepted and adds exactly one member row, active, for the calling user,
\* with the organization, role and team of the invitation; ProcessInvitation on an
\* accepted invitation that has not expired fails with "invitation has already been
\* processed" and adds no member.
C13_AcceptCreatesOneMembership ==
    [][\A k \in 1..MaxAcceptInvitations, u \in UserIDs :
          (ProcessInvitation(TokenOf(k), u) /\ GetInvitationByToken(TokenOf(k)) # {}) =>
             LET id == Min(GetInvitationByToken(TokenOf(k)))
                 invitation == invitations[id]
             IN /\ (invitation.status = StatusPending /\ ~IsExpired(invitation, now)) =>
                      /\ ret'.err = ErrNone
                      /\ invitations'[id].status = StatusAccepted
                      /\ \E m \in members' \ members :
                            /\ members' = members \cup {m}
                            /\ m.status = MemberActive
                            /\ m.user_id = u
                            /\ m.organization_id = invitation.organization_id
                            /\ m.role_id = invitation.role_id
                            /\ m.team_id = invitation.team_id
                /\ (invitation.status = StatusAccepted /\ ~IsExpired(invitation, now)) =>
                      /\ ret'.err = ErrAlreadyProcessed
                      /\ members' = members
                      /\ invitations' = invitations]_vars

C13_Witness ==
    /\ ret.op = "ProcessInvitation"
    /\ ret.err = ErrAlreadyProcessed
    /\ ret.loaded = StatusAccepted
    /\ ret.user = 2
    /\ Cardinality({m \in members : m.user_id = 2 /\ m.status = MemberActive}) = 1

\* C14: accepting an invitation is atomic with creating the membership: in every
\* reachable state, the states reached when the member insert fails after the status
\* write included, an invitation has status accepted only if an active member row with
\* its organization, role and team exists.
C14_AcceptedHasMembership ==
    \A i \in DOMAIN invitations :
        invitations[i].status = StatusAccepted =>
            \E m \in members : /\ m.status = MemberActive
                                /\ m.organization_id = invitations[i].organization_id
                                /\ m.role_id = invitations[i].role_id
                                /\ m.team_id = invitations[i].team_id

-----------------------------------------------------------------------------
(* Claims about creating an organization *)

\* C15: CreateOrganization is all-or-nothing: when one of its store calls fails it
\* returns the error and the store holds no organization, role or member row it did not
\* hold before; when it succeeds the organization exists and an active member row binds
\* the creator to a role named "admin".
C15_CreateOrganizationAllOrNothing ==
    [][\A u \in InviterIDs :
         /\ \A c \in CreateOrganizationCalls :
               CreateOrganizationStoreFails(u, c) =>
                  /\ ret'.err # ErrNone
                  /\ organizations' = organizations
                  /\ orgRoles' = orgRoles
                  /\ members' = members
         /\ CreateOrganization(u) =>
               /\ ret'.err = ErrNone
               /\ ret'.org \in organizations' \ organizations
               /\ \E m \in members' \ members, r \in orgRoles' :
                     /\ m.user_id = u
                     /\ m.organization_id = ret'.org
                     /\ m.status = MemberActive
                     /\ m.role_id = r.id
                     /\ r.name = "admin"]_vars

C15_Witness ==
    /\ ret.op = "CreateOrganization"
    /\ ret.err = ErrStore
    /\ organizations = {}
    /\ orgRoles = {}
    /\ members = {}

-----------------------------------------------------------------------------
(* Claims about the links between roles and permissions *)

\* the permissions linked to a role
LinkedPermissionIDs(links, roleID) == {rp.permission_id : rp \in {x \in links : x.role_id = roleID}}

\* C11: AssignPermissionsToRole replaces, it does not merge: called for an existing role
\* with a list of distinct existing permissions it succeeds, and whenever it succeeds the
\* role's permission set afterwards is exactly the list, whatever it was before; the
\* empty list clears the set.
C11_ReplaceNotMerge ==
    [][\A r \in 1..MaxLinkRoles, ids \in LinkIDLists :
          AssignPermissionsToRole(r, ids) =>
             /\ (/\ GetRoleByID(r)
                 /\ Cardinality(Range(ids)) = Len(ids)
                 /\ \A i \in DOMAIN ids : GetPermissionByID(ids[i]))
                  => ret'.err = ErrNone
             /\ ret'.err = ErrNone =>
                  LinkedPermissionIDs(rolePermissions', r) = Range(ids)]_vars

C11_Witness ==
    /\ ret.op = "AssignPermissionsToRole"
    /\ ret.err = ErrNone
    /\ LinkedPermissionIDs(rolePermissions, 1) = {3}
    /\ LinkedPermissionIDs(rolePermissions, 2) = {1, 2}

-----------------------------------------------------------------------------
(* Claims about readers that run during the replacement of a role's links *)

\* CheckUserPermission computed on a given role_permissions table
GrantedWith(links, userID, permission) ==
    \E p \in authPermissions, rp \in links, r \in authRoles, b \in Range(userRoles) :
        /\ p.name = permission /\ p.status = 1
        /\ p.id = rp.permission_id /\ rp.role_id = r.id /\ r.status = 1
        /\ r.id = b.role_id /\ b.user_id = userID /\ b.is_active

\* C16: while the transaction of AssignPermissionsToRole(role, new) is in flight, a
\* listing of a role's permissions returns the set the role had before the transaction
\* or the new set, and a permission check answers as it would on the table before the
\* transaction or on the table after it; neither reads the state in which the old links
\* are deleted and the new ones not yet inserted.
C16_ReplacementAtomicToReaders ==
    [][linkTx # <<>> =>
         LET tx == linkTx[1]
             new == {rp \in tx.old : rp.role_id # tx.role_id} \cup
                    {[role_id |-> tx.role_id, permission_id |-> tx.permission_ids[i]] :
                        i \in DOMAIN tx.permission_ids}
         IN /\ \A r \in 1..MaxTxRoles :
                  CallGetRolePermissions(r) =>
                     ret'.permission_ids \in {LinkedPermissionIDs(tx.old, r),
                                              LinkedPermissionIDs(new, r)}
            /\ \A u \in TxUserIDs, n \in TxPermissionNames :
                  CallCheckUserPermission(u, n) =>
                     ret'.has_permission \in {GrantedWith(tx.old, u, n),
                                              GrantedWith(new, u, n)}]_vars

C16_Witness ==
    /\ ret.op = "CheckUserPermission"
    /\ ret.pc = "create"
    /\ ret.has_permission
    /\ linkTx # <<>>
    /\ linkTx[1].pc = "create"
    /\ LinkedPermissionIDs(linkTx[1].links, linkTx[1].role_id) = {}
    /\ ~GrantedWith(linkTx[1].links, ret.user_id, ret.permission)

-----------------------------------------------------------------------------
(* Claims about deleting a role that is in use *)

\* C17: DeleteRole of a role that a binding still references, at global, organization
\* or team scope, fails and leaves the role in place, so that no binding references a
\* role that has been deleted.
C17_DeleteRoleInUseFails ==
    [][\A id \in 1..MaxUseRoles :
          (/\ AuthDeleteRole(id)
           /\ GetRoleByID(id)
           /\ \E b \in Range(userRoles) \cup Range(organizationRoles) \cup Range(teamRoles) :
                 b.role_id = id)
            => (ret'.err # ErrNone /\ authRoles' = authRoles)]_vars

-----------------------------------------------------------------------------
(* Claims about bindings that expire *)

\* the binding's ExpiresAt is set and earlier than the time t
BindingExpired(b, t) == b.expires_at # Nil /\ b.expires_at < t

\* C18: the binding reads honour expiry: GetUserRoles returns no binding whose ExpiresAt
\* is earlier than the current time, and CheckUserRole is true exactly when the user has
\* an active binding to the role with no expiry or an expiry that has not passed.
C18_ReadsHonourExpiry ==
    [][/\ \A u \in ExpiryUserIDs :
             CallGetUserRoles(u) =>
                \A i \in DOMAIN ret'.rows : ~BindingExpired(ret'.rows[i], now)
       /\ \A u \in ExpiryUserIDs, r \in 1..MaxExpiryRoles :
             CallCheckUserRole(u, r) =>
                (ret'.found <=> \E b \in Range(userRoles) :
                                    /\ b.user_id = u /\ b.role_id = r /\ b.is_active
                                    /\ ~BindingExpired(b, now))]_vars

\* C19: a binding whose expiry has passed grants nothing: when every binding through
\* which the user reaches the permission has an ExpiresAt earlier than the current time,
\* CheckPermission answers has_permission = false.
C19_ExpiredBindingGrantsNothing ==
    [][\A u \in ExpiryUserIDs, n \in ExpiryPermissionNames :
          (/\ AuthCheckPermission([user_id |-> u, organization_id |-> Nil,
                                   permission |-> n, team_id |-> Nil])
           /\ \A b \in Range(userRoles) :
                 (/\ b.user_id = u
                  /\ b.is_active
                  /\ \E r \in authRoles, rp \in rolePermissions, p \in authPermissions :
                        /\ r.id = b.role_id /\ r.status = RoleActive
                        /\ rp.role_id = r.id /\ rp.permission_id = p.id
                        /\ p.name = n /\ p.status = 1)
                   => BindingExpired(b, now))
            => ~ret'.resp.has_permission]_vars

-----------------------------------------------------------------------------
(* Claims about the route guards *)

\* C20: a user with an active global binding to the role named "super_admin" passes
\* every RequirePermission, RequireRole and RequireLevel guard, whatever permission, role
\* name or level is required; a user without it passes RequireLevel exactly when the
\* highest level among the roles of their active bindings reaches the threshold.
C20_SuperAdminOverridesEveryGuard ==
    [][\A u \in MiddlewareUserIDs :
          LET bound == {b \in Range(userRoles) : b.user_id = u /\ b.is_active}
              superAdmin == \E b \in bound, r \in authRoles :
                               r.id = b.role_id /\ r.name = "super_admin"
              levels == {r.level : r \in {x \in authRoles : \E b \in bound : b.role_id = x.id}}
          IN /\ \A n \in MiddlewarePermissionNames :
                   (RequirePermission(u, n) /\ superAdmin) => ret'.next
             /\ \A n \in RequiredRoles :
                   (RequireRole(u, n) /\ superAdmin) => ret'.next
             /\ \A l \in RequiredLevels :
                   RequireLevel(u, l) =>
                      IF superAdmin THEN ret'.next
                      ELSE ret'.next <=> \E v \in levels : v >= l]_vars

-----------------------------------------------------------------------------
(* Claims about role names, role deletion and the roles that members hold *)

\* C21: creating a role in an organization keeps role names unique within that
\* organization: no two roles of the same organization share a name.
C21_RoleNamesUniquePerOrganization ==
    \A r1, r2 \in orgRoles :
        (r1.organization_id # Nil /\ r1.organization_id = r2.organization_id
            /\ r1.name = r2.name) => r1 = r2

\* C25: deleting a role of the organization module fails, and leaves the roles as they
\* were, when the role is flagged default or some member row references it; hence the
\* role id of every member refers to an existing role.
C25_MemberRolesExist ==
    /\ [](\A m \in members : GetRole(m.role_id))
    /\ [][\A id \in ScopedRoleIDs :
             (DeleteRole(id) /\ GetRole(id)
                /\ (FirstRow(RoleRows(id)).is_default \/ \E m \in members : m.role_id = id))
             => (ret'.err # ErrNone /\ orgRoles' = orgRoles)]_vars

\* after some other role was deleted, a role that a member holds was asked to be
\* deleted and is still there
C25_Witness ==
    /\ ret.op = "DeleteRole"
    /\ ret.err = ErrRoleInUse
    /\ \E m \in members : m.role_id = ret.id /\ GetRole(ret.id)
    /\ lastRoleID > Cardinality(orgRoles)

\* C22: AddMember fails with "organization not found" when the organization is absent,
\* with "role not found" when the role is absent, and with "already a member" when the
\* user has an active member row in the organization; a failing call creates no member
\* row and leaves the existing rows as they were.
C22_AddMemberFailures ==
    [][\A u \in ScopedUserIDs, o \in 1..MaxScopedOrgs, r \in ScopedMemberRoleIDs :
          AddMember(u, o, Nil, r, MemberActive) =>
             LET active == \E m \in members : /\ m.user_id = u
                                              /\ m.organization_id = o
                                              /\ m.status = MemberActive
             IN /\ ~GetOrganization(o) => ret'.err = ErrOrgNotFound
                /\ (GetOrganization(o) /\ ~GetRole(r)) => ret'.err = ErrRoleNotFound
                /\ (GetOrganization(o) /\ GetRole(r) /\ active) => ret'.err = ErrAlreadyMember
                /\ ret'.err # ErrNone => (members' = members /\ lastMemberID' = lastMemberID)]_vars

\* a user who is an active member was added again and refused
C22_Witness ==
    /\ ret.op = "AddMember"
    /\ ret.err = ErrAlreadyMember
    /\ \E m \in members : m.status = MemberActive
    /\ Cardinality(members) = 1

\* C23: CancelInvitation is legal only from pending: on a pending invitation it sets
\* the status to rejected (2) and creates no member row; on an invitation that is
\* accepted, rejected or expired it fails and leaves the status as it was.
C23_CancelOnlyFromPending ==
    [][\A i \in 1..MaxAcceptInvitations :
          (CancelInvitation(i) /\ i \in DOMAIN invitations) =>
             /\ members' = members
             /\ IF invitations[i].status = StatusPending
                THEN ret'.err = ErrNone /\ invitations'[i].status = 2
                ELSE ret'.err = ErrOnlyPending /\ invitations' = invitations]_vars

\* an accepted invitation was asked to be cancelled and is still accepted
C23_Witness ==
    /\ ret.op = "CancelInvitation"
    /\ ret.err = ErrOnlyPending
    /\ \E i \in DOMAIN invitations : invitations[i].status = StatusAccepted

\* C29: the role a member row or an invitation refers to is a template role (no
\* organization) or a role of the row's own organization; a role of one organization
\* is never attached to a member of another.
C29_RoleOfSameOrganization ==
    /\ \A m \in members : \A r \in RoleRows(m.role_id) :
          r.organization_id = Nil \/ r.organization_id = m.organization_id
    /\ \A i \in DOMAIN invitations : \A r \in RoleRows(invitations[i].role_id) :
          r.organization_id = Nil \/ r.organization_id = invitations[i].organization_id

-----------------------------------------------------------------------------
(* Claims about the registry of roles and permissions *)

\* C24: AssignPermissionsToRole fails exactly when the role or one of the listed
\* permission ids does not exist; when the role and every listed id exist it succeeds,
\* also for a list that names an existing id more than once and for the empty list.
C24_AssignFailsOnlyOnMissing ==
    [][\A r \in 1..MaxLinkRoles, ids \in LinkIDLists :
          AssignPermissionsToRole(r, ids) =>
             (ret'.err # ErrNone <=>
                 (~GetRoleByID(r) \/ \E i \in DOMAIN ids : ~GetPermissionByID(ids[i])))]_vars

\* C28: after InitializeSystemRoles has returned nil, each of the names super_admin,
\* admin, moderator and user belongs to exactly one role and that role is a system
\* role; a call that follows another InitializeSystemRoles changes nothing.
C28_SystemRolesInstalled ==
    [][InitializeSystemRoles =>
          /\ \A k \in DOMAIN SystemRoles :
                /\ Cardinality({r \in authRoles' : r.name = SystemRoles[k].name}) = 1
                /\ \A r \in authRoles' : r.name = SystemRoles[k].name => r.is_system
          /\ ret.op = "InitializeSystemRoles" => authRoles' = authRoles]_vars

-----------------------------------------------------------------------------
(* Claims about concurrent callers *)

\* C26: when calls of ProcessInvitation with the same token interleave between their
\* read of the invitation and their writes, an invitation is accepted at most once and
\* at most one member row is created from it: besides the creator of each
\* organization there are no more members than invitations.
C26_OneMembershipPerInvitation ==
    Cardinality(members) <= Cardinality(organizations) + Len(invitations)

\* C27: when calls of AssignRoleToUser for the same user and role interleave between
\* the check (CheckUserRole) and the insert, the pair never has more than one active
\* binding.
C27_OneActiveBindingPerPair ==
    \A u \in RaceUserIDs, r \in 1..MaxRaceRoles :
        Cardinality({i \in DOMAIN userRoles : /\ userRoles[i].user_id = u
                                             /\ userRoles[i].role_id = r
                                             /\ userRoles[i].is_active}) <= 1

-----------------------------------------------------------------------------
(* Claims about disabled roles, permissions, bindings and members *)

\* an active binding among rows to a role with status 1 that is linked to a
\* permission of the given name with status 1
GrantedThrough(rows, name) ==
    \E i \in DOMAIN rows, r \in authRoles, rp \in rolePermissions, p \in authPermissions :
        /\ rows[i].is_active /\ rows[i].role_id = r.id
        /\ r.status = 1
        /\ rp.role_id = r.id /\ rp.permission_id = p.id
        /\ p.status = 1 /\ p.name = name

\* C30: disabled entities never grant: CheckUserPermission,
\* CheckUserOrganizationPermission, CheckUserTeamPermission and GetUserAllPermissions
\* grant or list a permission only through an active binding to a role with status 1
\* linked to a permission with status 1, and the organization's CheckPermission answers
\* false for a member whose status is not active even when the role has the wildcard.
C30_DisabledNeverGrants ==
    \A u \in GrantUserIDs, n \in GrantPermissionNames :
        /\ CheckUserPermission(u, n) =>
              GrantedThrough(SelectSeq(userRoles, LAMBDA b : b.user_id = u), n)
        /\ CheckUserOrganizationPermission(u, 1, n) =>
              GrantedThrough(SelectSeq(organizationRoles,
                                LAMBDA b : b.user_id = u /\ b.organization_id = 1), n)
        /\ CheckUserTeamPermission(u, 1, n) =>
              GrantedThrough(SelectSeq(teamRoles,
                                LAMBDA b : b.user_id = u /\ b.team_id = 1), n)
        /\ n \in GetUserAllPermissions(u) =>
              GrantedThrough(SelectSeq(userRoles, LAMBDA b : b.user_id = u), n)
        /\ (\A m \in MembersByUserAndOrg(u, 1) : m.status # MemberActive) =>
              ~CheckPermission(u, 1, n).ok
        /\ (ret.op = "CheckPermission" /\ "resp" \in DOMAIN ret /\ ret.resp.has_permission) =>
              \/ GrantedThrough(userRoles, ret.req.permission)
              \/ GrantedThrough(organizationRoles, ret.req.permission)
              \/ GrantedThrough(teamRoles, ret.req.permission)

\* a user actively bound to a disabled role that is linked to an enabled permission
\* asked for that permission and was refused
C30_Witness ==
    /\ ret.op = "CheckPermission"
    /\ "resp" \in DOMAIN ret
    /\ ~ret.resp.has_permission
    /\ \E r \in authRoles : r.status = RoleDisabled
    /\ \E p \in authPermissions : p.status = 1 /\ p.name = ret.req.permission
    /\ rolePermissions # {}
    /\ \E i \in DOMAIN userRoles : userRoles[i].is_active

====
